---------------------------- MODULE Spec2Model ----------------------------
(***************************************************************************)
(* Model of the mouth-tracking vowel overlay engine:                       *)
(*   - computeHeadPoseAnchor / computeTargetLandmarks (tracking component) *)
(*   - computeFeatures and the coefficient table (vowel model)             *)
(*   - the landmark registry (constants/landmarks.ts)                      *)
(*                                                                         *)
(* Numbers.  A JavaScript number is modelled as an exact rational          *)
(* <<n, d>> in lowest terms with d > 0, extended with the IEEE specials    *)
(* the code can produce: NaN = <<0,0>>, +Infinity = <<1,0>>,               *)
(* -Infinity = <<-1,0>>.  Rounding error, signed zero and overflow of      *)
(* doubles are not modelled.  Math.sqrt is exact: every input the model    *)
(* enumerates is chosen so that each square root the code takes is         *)
(* rational, and Sqrt has no value (TLC stops) on any other argument.      *)
(***************************************************************************)
EXTENDS Integers, Sequences, FiniteSets, TLC

VARIABLES
    cal,    \* calibrationData: the imported vowel_calibration.json
    pc,     \* "idle", or the name of the function whose call just returned
    arg,    \* the arguments of that call
    res,    \* its completion: a returned value or a thrown error
    locals, \* the values its local variables held when it completed
    history,     \* blendshapesHistory.current of the tracking component
    samples,     \* how many samples the smoother has been given
    cameras,     \* the Camera instances the effect runs have created
    microtasks,  \* the promise reactions queued and not yet run
    frame,       \* what the latest animation tick did
    frameErrors, \* how many times a frame handler logged a caught error
    ui,          \* isInitialized, error, and the display element's innerHTML
    capture,     \* the CalibrationCapture component
    app          \* the App component

callVars == <<pc, arg, res, locals>>
pageVars == <<capture, app>>
trackingVars == <<history, samples, cameras, microtasks, frame, frameErrors, ui,
                  capture, app>>
vars == <<cal, pc, arg, res, locals, history, samples, cameras, microtasks, frame,
          frameErrors, ui, capture, app>>

-----------------------------------------------------------------------------
(* Bounds of the model *)

\* the scaling property multiplies the live anchors by the factors 1..MaxScale
MaxScale == 3
\* live anchors are taken translated by 0..MaxShift steps
MaxShift == 1
\* the smoother is given at most MaxSamples samples in a row
MaxSamples == 6
\* a constant vector is fed to the smoother at most MaxFeed times
MaxFeed == 4

-----------------------------------------------------------------------------
(* JavaScript numbers.  A number is the pair <<n, d>> of the rational n/d   *)
(* in lowest terms with d > 0, or NaN, +Infinity, -Infinity as below.      *)
(* Arithmetic is that of the reals extended with the IEEE-754 rules for    *)
(* NaN and division by zero; the rounding of doubles is not modelled, so   *)
(* an equality here is an equality up to rounding in the program.          *)

NaN == <<0, 0>>
PosInf == <<1, 0>>
NegInf == <<-1, 0>>

Abs(n) == IF n < 0 THEN -n ELSE n
Sgn(n) == IF n < 0 THEN -1 ELSE IF n > 0 THEN 1 ELSE 0

\* (an operator whose arguments are used more than once takes them through
\* singleton sets, so that each is evaluated once)
RECURSIVE GCD(_, _)
GCD(a, b) ==
    CHOOSE g \in {IF y = 0 THEN x ELSE GCD(y, x % y) : x \in {a}, y \in {b}} : TRUE

\* the number n/d in canonical form (d = 0 gives NaN or a signed infinity)
Num(n, d) ==
    CHOOSE r \in
        { IF y = 0 THEN <<Sgn(x), 0>>
          ELSE LET g == GCD(Abs(x), Abs(y))
                   s == Sgn(y)
               IN  <<(s * x) \div g, (s * y) \div g>> : x \in {n}, y \in {d} } : TRUE

I(n) == <<n, 1>>
Zero == I(0)
One == I(1)

IsNaN(x) == x = NaN
IsFinite(x) == x[2] # 0

Mul(x, y) == Num(x[1] * y[1], x[2] * y[2])
Neg(x) == <<-x[1], x[2]>>
Add(x, y) ==
    IF x[2] = 0 /\ y[2] = 0
    THEN (IF x = y THEN x ELSE NaN)
    ELSE Num(x[1] * y[2] + y[1] * x[2], x[2] * y[2])
Sub(x, y) == Add(x, Neg(y))
Recip(x) == Num(x[2], x[1])
Div(x, y) == Mul(x, Recip(y))

\* x < y and x === y on numbers: both are false when either side is NaN
Lt(x, y) ==
    /\ ~IsNaN(x) /\ ~IsNaN(y)
    /\ IF x[2] = 0 /\ y[2] = 0 THEN x[1] < y[1]
       ELSE IF x[2] = 0 THEN x[1] < 0
       ELSE IF y[2] = 0 THEN y[1] > 0
       ELSE x[1] * y[2] < y[1] * x[2]
NumEq(x, y) == ~IsNaN(x) /\ ~IsNaN(y) /\ x = y

\* Math.max(x, y)
Max(x, y) == IF IsNaN(x) \/ IsNaN(y) THEN NaN ELSE IF Lt(x, y) THEN y ELSE x

\* the largest r in lo..hi with r * r <= n, by bisection
RECURSIVE FloorSqrt(_, _, _)
FloorSqrt(n, lo, hi) ==
    IF lo = hi THEN lo
    ELSE LET mid == (lo + hi + 1) \div 2
         IN  IF mid * mid <= n THEN FloorSqrt(n, mid, hi)
             ELSE FloorSqrt(n, lo, mid - 1)

\* the floor of the square root of n (46340 is the largest root of a 32-bit n)
IRoot(n) == FloorSqrt(n, 0, IF n > 46340 THEN 46340 ELSE n)

IsSquare(n) == n >= 0 /\ IRoot(n) * IRoot(n) = n

\* the natural number whose square is n; it has no value unless n is a
\* perfect square, so that no inexact root is ever taken silently
ISqrt(n) == CHOOSE r \in {IRoot(n)} : r * r = n

\* Math.sqrt(x)
Sqrt(x) ==
    IF IsNaN(x) \/ x = NegInf THEN NaN
    ELSE IF x = PosInf THEN PosInf
    ELSE IF x[1] < 0 THEN NaN
    ELSE <<ISqrt(x[1]), ISqrt(x[2])>>

-----------------------------------------------------------------------------
(* 3D vectors: <<x, y, z>> of numbers *)

Vec(x, y, z) == <<I(x), I(y), I(z)>>
VAdd(p, q) == <<Add(p[1], q[1]), Add(p[2], q[2]), Add(p[3], q[3])>>
VSub(p, q) == <<Sub(p[1], q[1]), Sub(p[2], q[2]), Sub(p[3], q[3])>>
VScale(c, p) == <<Mul(c, p[1]), Mul(c, p[2]), Mul(c, p[3])>>
VDivS(p, c) == <<Div(p[1], c), Div(p[2], c), Div(p[3], c)>>
VDot(p, q) == Add(Add(Mul(p[1], q[1]), Mul(p[2], q[2])), Mul(p[3], q[3]))
VCross(p, q) ==
    << Sub(Mul(p[2], q[3]), Mul(p[3], q[2])),
       Sub(Mul(p[3], q[1]), Mul(p[1], q[3])),
       Sub(Mul(p[1], q[2]), Mul(p[2], q[1])) >>
VLength(p) == Sqrt(VDot(p, p))
VNaN == <<NaN, NaN, NaN>>
VHasNaN(p) == IsNaN(p[1]) \/ IsNaN(p[2]) \/ IsNaN(p[3])
VFinite(p) == IsFinite(p[1]) /\ IsFinite(p[2]) /\ IsFinite(p[3])

-----------------------------------------------------------------------------
(* Completions of a call *)

Returned(v) == [ok |-> TRUE, error |-> "", value |-> v]
Thrown(e) == [ok |-> FALSE, error |-> e, value |-> <<>>]

\* Body applied to the value of v, which is evaluated once
With(v, Body(_)) == CHOOSE r \in {Body(x) : x \in {v}} : TRUE

\* obj.field for a field the object may lack: undefined, which the
\* arithmetic it is used in converts to NaN
Get(obj, field) == IF field \in DOMAIN obj THEN obj[field] ELSE NaN

-----------------------------------------------------------------------------
(* Property keys: Number.prototype.toString / key coercion of an index *)

Digit(d) == CASE d = 0 -> "0" [] d = 1 -> "1" [] d = 2 -> "2" [] d = 3 -> "3"
              [] d = 4 -> "4" [] d = 5 -> "5" [] d = 6 -> "6" [] d = 7 -> "7"
              [] d = 8 -> "8" [] d = 9 -> "9"

RECURSIVE ToStr(_)
ToStr(n) == IF n < 10 THEN Digit(n) ELSE ToStr(n \div 10) \o Digit(n % 10)

-----------------------------------------------------------------------------
(* constants/landmarks.ts *)

FACE_ANCHORS == <<1, 133, 362>>
OUTER_LIP_LANDMARKS ==
    <<61, 185, 40, 39, 37, 0, 267, 269, 270, 409,
      291, 375, 321, 405, 314, 17, 84, 181, 91, 146>>
INNER_LIP_LANDMARKS ==
    <<78, 191, 80, 81, 82, 13, 312, 311, 310, 415,
      308, 324, 318, 402, 317, 14, 87, 178, 88, 95>>
MOUTH_LANDMARKS == OUTER_LIP_LANDMARKS \o INNER_LIP_LANDMARKS
ALL_TRACKED_LANDMARKS == FACE_ANCHORS \o MOUTH_LANDMARKS

Range(s) == {s[j] : j \in DOMAIN s}

-----------------------------------------------------------------------------
(* The vowel symbols.  The Korean letters are written by their romanised   *)
(* names: A = U+314F, U = U+315C, I = U+3163 (the basis vowels), and       *)
(* EO, E, AE, O, YO, YU, EU (the keys of VOWEL_COEFFS_MONO), OE and WI.    *)

VOWEL_COEFFS_MONO ==
    [ EO |-> [open |-> Num(55, 100), spread |-> Zero,           round |-> Zero],
      E  |-> [open |-> Num(40, 100), spread |-> Num(70, 100),   round |-> Zero],
      AE |-> [open |-> Num(42, 100), spread |-> Num(68, 100),   round |-> Zero],
      O  |-> [open |-> Num(35, 100), spread |-> Num(-15, 100),  round |-> Num(85, 100)],
      YO |-> [open |-> Num(25, 100), spread |-> Num(-10, 100),  round |-> Num(90, 100)],
      YU |-> [open |-> Num(12, 100), spread |-> Num(15, 100),   round |-> Num(98, 100)],
      EU |-> [open |-> Num(20, 100), spread |-> Zero,           round |-> Zero] ]

\* the property names every object literal inherits from Object.prototype
ObjectPrototypeKeys ==
    { "constructor", "toString", "toLocaleString", "valueOf", "hasOwnProperty",
      "isPrototypeOf", "propertyIsEnumerable", "__proto__",
      "__defineGetter__", "__defineSetter__", "__lookupGetter__", "__lookupSetter__" }

\* key in obj, for an object literal obj: own and inherited properties
HasProperty(obj, key) == key \in DOMAIN obj \/ key \in ObjectPrototypeKeys

\* obj[key]: an own property's value, else the inherited member (which has
\* none of the fields open, round, spread), else undefined
Member(obj, key) == IF key \in DOMAIN obj THEN obj[key] ELSE [inherited |-> TRUE]

-----------------------------------------------------------------------------
(* computeHeadPoseAnchor.  isArray is Array.isArray(landmarks): a live     *)
(* landmark array is indexed by number and holds {x, y, z} points, the     *)
(* calibration landmarks are an object keyed by the index's decimal string *)
(* that holds [x, y, z] arrays.  Both kinds of point are triples here.     *)
(* Reading a coordinate of an absent landmark throws a TypeError.          *)

AnchorKey(n, isArray) == IF isArray THEN n ELSE ToStr(n)

\* mutant: the forward vector left unnormalised
HeadPoseFrame_RawForward(nose, leftEye, rightEye) ==
    LET rightVec == VSub(rightEye, leftEye)
        rightLength == VLength(rightVec)
        rightVector == VDivS(rightVec, rightLength)
        eyeCenter == VDivS(VAdd(leftEye, rightEye), I(2))
        eyeToNose == VSub(nose, eyeCenter)
        eyeToNoseLength == VLength(eyeToNose)
        downVector == VDivS(eyeToNose, eyeToNoseLength)
        forwardVector == VCross(rightVector, downVector)
        upVec == VCross(forwardVector, rightVector)
        upLength == VLength(upVec)
        upVector == VDivS(upVec, upLength)
    IN  [ origin |-> nose,
          rightVector |-> rightVector,
          upVector |-> upVector,
          forwardVector |-> forwardVector,
          scale |-> rightLength ]

HeadPoseFrame(nose, leftEye, rightEye) ==
    LET rightVec == VSub(rightEye, leftEye)
        rightLength == VLength(rightVec)
        rightVector == VDivS(rightVec, rightLength)
        eyeCenter == VDivS(VAdd(leftEye, rightEye), I(2))
        eyeToNose == VSub(nose, eyeCenter)
        eyeToNoseLength == VLength(eyeToNose)
        downVector == VDivS(eyeToNose, eyeToNoseLength)
        forwardVec == VCross(rightVector, downVector)
        forwardLength == VLength(forwardVec)
        forwardVector == VDivS(forwardVec, forwardLength)
        upVec == VCross(forwardVector, rightVector)
        upLength == VLength(upVec)
        upVector == VDivS(upVec, upLength)
    IN  [ origin |-> nose,
          rightVector |-> rightVector,
          upVector |-> upVector,
          forwardVector |-> forwardVector,
          scale |-> rightLength ]

computeHeadPoseAnchor(landmarks, isArray) ==
    IF ~({AnchorKey(1, isArray), AnchorKey(133, isArray), AnchorKey(362, isArray)}
            \subseteq DOMAIN landmarks)
    THEN Thrown("TypeError")
    ELSE Returned(HeadPoseFrame(landmarks[AnchorKey(1, isArray)],
                                landmarks[AnchorKey(133, isArray)],
                                landmarks[AnchorKey(362, isArray)]))

-----------------------------------------------------------------------------
(* computeTargetLandmarks *)

\* mutant: the first outer index replaced by its neighbour
outerLipIds_Off ==
    <<62, 185, 40, 39, 37, 0, 267, 269, 270, 409,
      291, 375, 321, 405, 314, 17, 84, 181, 91, 146>>

outerLipIds ==
    <<61, 185, 40, 39, 37, 0, 267, 269, 270, 409,
      291, 375, 321, 405, 314, 17, 84, 181, 91, 146>>
innerLipIds ==
    <<78, 191, 80, 81, 82, 13, 312, 311, 310, 415,
      308, 324, 318, 402, 317, 14, 87, 178, 88, 95>>
allMouthIds == outerLipIds \o innerLipIds

isCalibrated(vowel) == vowel = "A" \/ vowel = "U" \/ vowel = "I"
\* mutant: the frames of two basis vowels exchanged
calibratedKey_Swapped(vowel) ==
    IF vowel = "A" THEN "a" ELSE IF vowel = "U" THEN "i" ELSE "u"
calibratedKey(vowel) == IF vowel = "A" THEN "a" ELSE IF vowel = "U" THEN "u" ELSE "i"

\* the frames of calibrationData whose landmarks hold every mouth id
HasMouthIds(calibrationData, keys) ==
    \A k \in keys : \A id \in Range(allMouthIds) :
        ToStr(id) \in DOMAIN calibrationData[k].landmarks

\* the calibrated branch for one id: a new array of the stored coordinates
CalibratedPoint(calibrationData, vowel, id) ==
    LET coords == calibrationData[calibratedKey(vowel)].landmarks[ToStr(id)]
    IN  <<coords[1], coords[2], coords[3]>>

\* the calibrated branch: the stored coordinates of the vowel's frame
CalibratedShape(calibrationData, vowel) ==
    IF ~HasMouthIds(calibrationData, {calibratedKey(vowel)})
    THEN Thrown("TypeError")
    ELSE Returned([id \in Range(allMouthIds) |->
            CalibratedPoint(calibrationData, vowel, id)])

\* mutant: the round and spread coefficients applied to each other's delta
InterpolateAxis_SwappedCoeffs(coeffs, neutral, a, u, i, c) ==
    LET deltaA == Sub(a[c], neutral[c])
        deltaU == Sub(u[c], neutral[c])
        deltaI == Sub(i[c], neutral[c])
    IN  Add(Add(Add(neutral[c], Mul(Get(coeffs, "open"), deltaA)),
                Mul(Get(coeffs, "spread"), deltaU)),
            Mul(Get(coeffs, "round"), deltaI))

\* mutant: the round delta taken from the 'a' frame instead of neutral
InterpolateAxis_DeltaFromA(coeffs, neutral, a, u, i, c) ==
    LET deltaA == Sub(a[c], neutral[c])
        deltaU == Sub(u[c], a[c])
        deltaI == Sub(i[c], neutral[c])
    IN  Add(Add(Add(neutral[c], Mul(Get(coeffs, "open"), deltaA)),
                Mul(Get(coeffs, "round"), deltaU)),
            Mul(Get(coeffs, "spread"), deltaI))

\* one axis c of the interpolation of one landmark
InterpolateAxis(coeffs, neutral, a, u, i, c) ==
    LET deltaA == Sub(a[c], neutral[c])
        deltaU == Sub(u[c], neutral[c])
        deltaI == Sub(i[c], neutral[c])
    IN  Add(Add(Add(neutral[c], Mul(Get(coeffs, "open"), deltaA)),
                Mul(Get(coeffs, "round"), deltaU)),
            Mul(Get(coeffs, "spread"), deltaI))

\* the interpolating branch for one id: a new array of three numbers
InterpolatedPoint(calibrationData, coeffs, id) ==
    LET idStr == ToStr(id)
        neutral == calibrationData.neutral.landmarks[idStr]
        a == calibrationData.a.landmarks[idStr]
        u == calibrationData.u.landmarks[idStr]
        i == calibrationData.i.landmarks[idStr]
    IN  << InterpolateAxis(coeffs, neutral, a, u, i, 1),
           InterpolateAxis(coeffs, neutral, a, u, i, 2),
           InterpolateAxis(coeffs, neutral, a, u, i, 3) >>

\* the interpolating branch, for the coefficients coeffs
InterpolatedShape(calibrationData, coeffs) ==
    IF ~HasMouthIds(calibrationData, {"neutral", "a", "u", "i"})
    THEN Thrown("TypeError")
    ELSE Returned([id \in Range(allMouthIds) |->
            InterpolatedPoint(calibrationData, coeffs, id)])

\* the static target shape in calibrated space
StaticTargetShape(calibrationData, vowel) ==
    IF isCalibrated(vowel) THEN CalibratedShape(calibrationData, vowel)
    ELSE IF ~HasProperty(VOWEL_COEFFS_MONO, vowel) THEN Thrown("UnknownVowel")
    ELSE InterpolatedShape(calibrationData, Member(VOWEL_COEFFS_MONO, vowel))

\* steps 1 to 5 of the overlay transform of one static point
TransformPoint(staticPoint, calibratedPose, userPose) ==
    LET calibratedOffset == VSub(staticPoint, calibratedPose.origin)
        localX == VDot(calibratedOffset, calibratedPose.rightVector)
        localY == VDot(calibratedOffset, calibratedPose.upVector)
        localZ == VDot(calibratedOffset, calibratedPose.forwardVector)
        scaleFactor == Div(userPose.scale, calibratedPose.scale)
        scaledLocalX == Mul(localX, scaleFactor)
        scaledLocalY == Mul(localY, scaleFactor)
        scaledLocalZ == Mul(localZ, scaleFactor)
        worldOffset ==
            VAdd(VAdd(VScale(scaledLocalX, userPose.rightVector),
                      VScale(scaledLocalY, userPose.upVector)),
                 VScale(scaledLocalZ, userPose.forwardVector))
    IN  VAdd(userPose.origin, worldOffset)

NoLocals == [fn |-> "none"]

\* the overlay transform of every mouth id (the loop over allMouthIds)
TransformShape(staticTargetShape, calibratedPose, userPose) ==
    [id \in Range(allMouthIds) |->
        TransformPoint(staticTargetShape[id], calibratedPose, userPose)]

\* the call's completion and its locals staticTargetShape, calibratedPose, userPose
computeTargetLandmarksRun(calibrationData, allLandmarks, vowel) ==
    With(StaticTargetShape(calibrationData, vowel), LAMBDA shape :
    IF ~shape.ok THEN [result |-> shape, locals |-> NoLocals] ELSE
    With(computeHeadPoseAnchor(calibrationData.neutral.landmarks, FALSE), LAMBDA calibratedPose :
    IF ~calibratedPose.ok THEN [result |-> calibratedPose, locals |-> NoLocals] ELSE
    With(computeHeadPoseAnchor(allLandmarks, TRUE), LAMBDA userPose :
    IF ~userPose.ok THEN [result |-> userPose, locals |-> NoLocals] ELSE
    [ result |-> Returned(TransformShape(shape.value, calibratedPose.value, userPose.value)),
      locals |-> [ fn |-> "computeTargetLandmarks",
                   staticTargetShape |-> shape.value,
                   calibratedPose |-> calibratedPose.value,
                   userPose |-> userPose.value ] ])))

computeTargetLandmarks(calibrationData, allLandmarks, vowel) ==
    computeTargetLandmarksRun(calibrationData, allLandmarks, vowel).result

-----------------------------------------------------------------------------
(* vowelModel_mono: computeFeatures *)

REQUIRED_LANDMARKS ==
    <<1, 133, 362, 61, 291, 0, 13, 14, 17, 39, 81, 269, 311, 402, 405, 178, 181>>

EPSILON == Num(1, 1000000)

distance3D(p1, p2) ==
    LET dx == Sub(p2[1], p1[1])
        dy == Sub(p2[2], p1[2])
        dz == Sub(p2[3], p1[3])
    IN  Sqrt(Add(Add(Mul(dx, dx), Mul(dy, dy)), Mul(dz, dz)))

RECURSIVE SumY(_, _, _)
SumY(landmarks, indices, n) ==
    IF n = 0 THEN Zero
    ELSE Add(SumY(landmarks, indices, n - 1), landmarks[ToStr(indices[n])][2])

avgY(landmarks, indices) == Div(SumY(landmarks, indices, Len(indices)), I(Len(indices)))

\* mutant: the loop starts after the three anchor indices
MissingRequired_SkipsAnchors(landmarks) ==
    \E j \in DOMAIN REQUIRED_LANDMARKS :
        j > 3 /\ ~HasProperty(landmarks, ToStr(REQUIRED_LANDMARKS[j]))

\* mutant: every tracked index is demanded
MissingRequired_AllTracked(landmarks) ==
    \E j \in DOMAIN ALL_TRACKED_LANDMARKS :
        ~HasProperty(landmarks, ToStr(ALL_TRACKED_LANDMARKS[j]))

\* the validation loop: some required index is not a property of the map
MissingRequired(landmarks) ==
    \E j \in DOMAIN REQUIRED_LANDMARKS :
        ~HasProperty(landmarks, ToStr(REQUIRED_LANDMARKS[j]))

\* the indices whose coordinates the feature formulas read; reading a
\* coordinate of an absent one throws a TypeError
FeatureReads == {133, 362, 61, 291, 13, 81, 178, 14, 311, 405}

computeFeatures(landmarks) ==
    IF MissingRequired(landmarks) THEN Thrown("MissingLandmark")
    ELSE IF ~({ToStr(idx) : idx \in FeatureReads} \subseteq DOMAIN landmarks)
    THEN Thrown("TypeError")
    ELSE LET eyeDistance == distance3D(landmarks["133"], landmarks["362"])
         IN  IF Lt(eyeDistance, EPSILON) THEN Thrown("DegenerateNormalization")
             ELSE LET mouthWidth == distance3D(landmarks["61"], landmarks["291"])
                      W == Div(mouthWidth, eyeDistance)
                      U == avgY(landmarks, <<13, 81, 178>>)
                      L == avgY(landmarks, <<14, 311, 405>>)
                      A == Div(Sub(L, U), eyeDistance)
                      P == Div(One, Max(W, EPSILON))
                  IN  Returned([A |-> A, W |-> W, P |-> P])

-----------------------------------------------------------------------------
(* vowelModel_mono: computeVowelBasis, vowelTarget, printMonoVowels *)

T0 == Num(2, 10)

featureToArray(f) == <<f.A, f.W, f.P>>
arrayToFeature(arr) == [A |-> arr[1], W |-> arr[2], P |-> arr[3]]
subtractFeatures(f1, f2) == <<Sub(f1.A, f2.A), Sub(f1.W, f2.W), Sub(f1.P, f2.P)>>

\* Math.sqrt(x) / t as the root of x / t^2: the number itself when that is
\* a rational square, else the surd given by its square
RootOver(x, t) ==
    LET q == Div(x, Mul(t, t))
    IN  IF IsFinite(q) /\ q[1] >= 0 /\ IsSquare(q[1]) /\ IsSquare(q[2])
        THEN Sqrt(q) ELSE [squared |-> q]

\* norm(vec) / T0
NormOverT0(vec) ==
    RootOver(Add(Add(Mul(vec[1], vec[1]), Mul(vec[2], vec[2])), Mul(vec[3], vec[3])), T0)

addScaledVectors(base, c1, v1, c2, v2, c3, v3) ==
    [j \in 1..3 |->
        Add(Add(Add(base[j], Mul(c1, v1[j])), Mul(c2, v2[j])), Mul(c3, v3[j]))]

computeVowelBasis(calibrationData) ==
    With(computeFeatures(calibrationData.neutral.landmarks), LAMBDA neutralFeatures :
    IF ~neutralFeatures.ok THEN neutralFeatures ELSE
    With(computeFeatures(calibrationData.a.landmarks), LAMBDA aFeatures :
    IF ~aFeatures.ok THEN aFeatures ELSE
    With(computeFeatures(calibrationData.u.landmarks), LAMBDA uFeatures :
    IF ~uFeatures.ok THEN uFeatures ELSE
    With(computeFeatures(calibrationData.i.landmarks), LAMBDA iFeatures :
    IF ~iFeatures.ok THEN iFeatures ELSE
    With(subtractFeatures(aFeatures.value, neutralFeatures.value), LAMBDA open :
    With(subtractFeatures(uFeatures.value, neutralFeatures.value), LAMBDA round :
    With(subtractFeatures(iFeatures.value, neutralFeatures.value), LAMBDA spread :
    Returned(
      [ open |-> open, round |-> round, spread |-> spread,
        features |-> [ neutral |-> neutralFeatures.value, a |-> aFeatures.value,
                       u |-> uFeatures.value, i |-> iFeatures.value ],
        rates |-> [ openRate |-> NormOverT0(open), roundRate |-> NormOverT0(round),
                    spreadRate |-> NormOverT0(spread) ] ]))))))))

vowelTarget(vowel, basis) ==
    IF ~HasProperty(VOWEL_COEFFS_MONO, vowel) THEN Thrown("UnknownVowel")
    ELSE LET coeffs == Member(VOWEL_COEFFS_MONO, vowel)
             F0 == featureToArray(basis.features.neutral)
             targetArray == addScaledVectors(F0,
                                Get(coeffs, "open"), basis.open,
                                Get(coeffs, "round"), basis.round,
                                Get(coeffs, "spread"), basis.spread)
         IN  Returned(arrayToFeature(targetArray))

\* the integer nearest to n / d for n >= 0 and d > 0, halves rounded up
RoundDiv(n, d) == (2 * n + d) \div (2 * d)

Pad3(n) == IF n < 10 THEN "00" \o ToStr(n) ELSE IF n < 100 THEN "0" \o ToStr(n) ELSE ToStr(n)

\* x.toFixed(3)
toFixed3(x) ==
    IF IsNaN(x) THEN "NaN"
    ELSE IF x = PosInf THEN "Infinity"
    ELSE IF x = NegInf THEN "-Infinity"
    ELSE LET t == RoundDiv(Abs(x[1]) * 1000, x[2])
         IN  (IF x[1] < 0 THEN "-" ELSE "")
                \o ToStr(t \div 1000) \o "." \o Pad3(t % 1000)

vowelOrder == <<"EO", "O", "EU", "AE", "E", "OE", "WI", "YO", "YU">>

\* the lines printMonoVowels writes before and after the table's rows
TableHead == <<"rule", "title", "rule", "columns", "dashes">>
TableFoot == <<"rule">>

\* the console after the rows of vowelOrder[k..], and the call's completion
RECURSIVE PrintRows(_, _, _)
PrintRows(basis, k, console) ==
    IF k > Len(vowelOrder) THEN [result |-> Returned(<<>>), console |-> console \o TableFoot]
    ELSE LET vowel == vowelOrder[k]
             features == vowelTarget(vowel, basis)
         IN  IF ~features.ok THEN [result |-> features, console |-> console]
             ELSE IF vowel \notin DOMAIN VOWEL_COEFFS_MONO
             THEN [result |-> Thrown("TypeError"), console |-> console]
             ELSE LET coeffs == VOWEL_COEFFS_MONO[vowel]
                      row == [ vowel |-> vowel,
                               open |-> toFixed3(coeffs.open),
                               round |-> toFixed3(coeffs.round),
                               spread |-> toFixed3(coeffs.spread),
                               A |-> toFixed3(features.value.A),
                               W |-> toFixed3(features.value.W),
                               P |-> toFixed3(features.value.P) ]
                  IN  PrintRows(basis, k + 1, Append(console, row))

printMonoVowels(basis) == PrintRows(basis, 1, TableHead)

-----------------------------------------------------------------------------
(* The tracking component: smoothBlendshapes *)

\* mutant: no smoothing at all
smoothingFactor_One == One

smoothingFactor == Num(7, 10)

\* v || 0 for a number v
OrZero(v) == IF IsNaN(v) \/ v = Zero THEN Zero ELSE v

\* mutant: the raw sample is pushed on the history instead of the smoothed one
smoothBlendshapes_PushesRaw(hist, newBlendshapes) ==
    IF Len(hist) = 0
    THEN [history |-> <<newBlendshapes>>, value |-> newBlendshapes]
    ELSE [ history |-> Append(hist, newBlendshapes),
           value |-> [index \in 1..Len(newBlendshapes) |->
                Add(Mul(OrZero(hist[Len(hist)][index]), smoothingFactor),
                    Mul(newBlendshapes[index], Sub(One, smoothingFactor)))] ]

\* mutant: the newest vector is removed instead of the oldest
ShiftHistory_PopsNewest(pushed) ==
    IF Len(pushed) > 5 THEN SubSeq(pushed, 1, Len(pushed) - 1) ELSE pushed

\* if (history.length > 5) history.shift()
ShiftHistory(pushed) == IF Len(pushed) > 5 THEN Tail(pushed) ELSE pushed

\* smoothBlendshapes(newBlendshapes) on the history hist: the history it
\* leaves and the vector it returns
smoothBlendshapes(hist, newBlendshapes) ==
    IF Len(hist) = 0
    THEN [history |-> <<newBlendshapes>>, value |-> newBlendshapes]
    ELSE LET lastBlendshapes == hist[Len(hist)]
             smoothed ==
                [index \in 1..Len(newBlendshapes) |->
                    LET lastVal == IF index \in DOMAIN lastBlendshapes
                                   THEN OrZero(lastBlendshapes[index]) ELSE Zero
                    IN  Add(Mul(lastVal, smoothingFactor),
                            Mul(newBlendshapes[index], Sub(One, smoothingFactor)))]
             pushed == Append(hist, smoothed)
         IN  [ history |-> ShiftHistory(pushed),
               value |-> smoothed ]

-----------------------------------------------------------------------------
(* Inputs.  Coordinates are whole numbers of an arbitrary unit.  An anchor  *)
(* triple is given by the left eye P, the inter-eye vector R (even          *)
(* components) and the vector E from the eye centre to the nose; every      *)
(* pose listed has |R|, |E| and |R x E| rational.                           *)

Anchors(P, R, E) ==
    [ nose |-> <<I(P[1] + (R[1] \div 2) + E[1]), I(P[2] + (R[2] \div 2) + E[2]),
                 I(P[3] + (R[3] \div 2) + E[3])>>,
      leftEye |-> Vec(P[1], P[2], P[3]),
      rightEye |-> Vec(P[1] + R[1], P[2] + R[2], P[3] + R[3]) ]

Poses ==
    [ frontal    |-> [R |-> <<4, 0, 0>>, E |-> <<0, 3, 0>>],
      pitch      |-> [R |-> <<4, 0, 0>>, E |-> <<0, 3, 4>>],
      roll       |-> [R |-> <<6, 8, 0>>, E |-> <<-4, 3, 0>>],
      yaw        |-> [R |-> <<6, 0, 8>>, E |-> <<0, 5, 0>>],
      offcentre  |-> [R |-> <<4, 0, 0>>, E |-> <<3, 4, 0>>],
      sameEyes   |-> [R |-> <<0, 0, 0>>, E |-> <<0, 3, 0>>],
      noseCentre |-> [R |-> <<4, 0, 0>>, E |-> <<0, 0, 0>>],
      collinear  |-> [R |-> <<4, 0, 0>>, E |-> <<3, 0, 0>>] ]

DegeneratePoses == {"sameEyes", "noseCentre", "collinear"}

BasePos == <<30, 40, 0>>
ShiftStep == <<10, 20, 6>>

PoseAnchors(pose, shift) ==
    Anchors(<<BasePos[1] + shift * ShiftStep[1], BasePos[2] + shift * ShiftStep[2],
              BasePos[3] + shift * ShiftStep[3]>>,
            Poses[pose].R, Poses[pose].E)

\* a detector result's landmark array, of which only the anchors are read
LiveLandmarks(pose, shift) ==
    LET an == PoseAnchors(pose, shift)
    IN  (1 :> an.nose) @@ (133 :> an.leftEye) @@ (362 :> an.rightEye)

LiveInputs == { LiveLandmarks(pose, shift) : pose \in DOMAIN Poses, shift \in 0..MaxShift }

ScaleLandmarks(landmarks, k) == [j \in DOMAIN landmarks |-> VScale(I(k), landmarks[j])]

\* a mouth shape: centre (cx, cy), half-width step w, height step h, depth d
Shapes ==
    [ neutral |-> [w |-> 2, h |-> 1, d |-> 1],
      a       |-> [w |-> 2, h |-> 3, d |-> 2],
      u       |-> [w |-> 1, h |-> 2, d |-> 3],
      i       |-> [w |-> 3, h |-> 1, d |-> 1],
      pursed  |-> [w |-> 0, h |-> 1, d |-> 2] ]

MouthPoint(shape, id) ==
    Vec(32 + ((id % 9) - 4) * Shapes[shape].w,
        47 + (2 - (id % 5)) * Shapes[shape].h,
        (id % 2) * Shapes[shape].d)

IdOfKey(key) == CHOOSE id \in Range(ALL_TRACKED_LANDMARKS) : ToStr(id) = key

\* the landmarks object of a calibration frame holding the indices ids
FrameLandmarks(pose, shape, ids) ==
    LET an == PoseAnchors(pose, 0)
    IN  [ key \in {ToStr(id) : id \in ids} |->
            LET id == IdOfKey(key)
            IN  IF id = 1 THEN an.nose
                ELSE IF id = 133 THEN an.leftEye
                ELSE IF id = 362 THEN an.rightEye
                ELSE MouthPoint(shape, id) ]

AllIds == Range(ALL_TRACKED_LANDMARKS)

CalibrationSet(pose, missing) ==
    [ neutral |-> [landmarks |-> FrameLandmarks(pose, "neutral", AllIds)],
      a       |-> [landmarks |-> FrameLandmarks(pose, "a", AllIds)],
      u       |-> [landmarks |-> FrameLandmarks(pose, "u", AllIds \ missing)],
      i       |-> [landmarks |-> FrameLandmarks(pose, "i", AllIds)] ]

CalibrationInputs ==
    { CalibrationSet("frontal", {}), CalibrationSet("roll", {}),
      CalibrationSet("sameEyes", {}), CalibrationSet("pitch", {13}) }

VowelInputs ==
    {"A", "U", "I"} \cup DOMAIN VOWEL_COEFFS_MONO
        \cup {"OE", "x", "constructor", "__proto__"}

UnitCoeffs ==
    { [open |-> Zero, round |-> Zero, spread |-> Zero],
      [open |-> One,  round |-> Zero, spread |-> Zero],
      [open |-> Zero, round |-> One,  spread |-> Zero],
      [open |-> Zero, round |-> Zero, spread |-> One] }

CoeffInputs == UnitCoeffs \cup {VOWEL_COEFFS_MONO[v] : v \in DOMAIN VOWEL_COEFFS_MONO}

\* the seventeen indices of an earlier, smaller tracking set
SeventeenIds == {1, 133, 362, 61, 291, 0, 13, 14, 17, 39, 81, 269, 311, 402, 405, 178, 181}
\* the ten indices that appear in the feature formulas
TenIds == {133, 362, 61, 291, 13, 81, 178, 14, 311, 405}

FeatureDomains ==
    { AllIds, SeventeenIds, TenIds,
      AllIds \ {133}, AllIds \ {1}, AllIds \ {405} }

Restrict(landmarks, ids) ==
    [key \in {ToStr(id) : id \in ids} \cap DOMAIN landmarks |-> landmarks[key]]

\* the landmark maps given to computeFeatures
FeatureInputs(calibrationData) ==
    { Restrict(f, ids) :
        f \in {calibrationData[k].landmarks : k \in DOMAIN calibrationData}
                \cup {FrameLandmarks("frontal", "pursed", AllIds)},
        ids \in FeatureDomains }

-----------------------------------------------------------------------------
(* The state machine: one action per call of a function of the engine      *)

\* the tracking component before its first effect run
TrackingInit ==
    /\ history = <<>>
    /\ samples = 0
    /\ cameras = <<>>
    /\ microtasks = <<>>
    /\ frame = [kind |-> "none"]
    /\ frameErrors = 0
    /\ ui = [isInitialized |-> FALSE, error |-> "null", innerHTML |-> <<>>]
    /\ capture = [mounted |-> FALSE]
    /\ app = [mode |-> "practice"]

Init ==
    /\ cal \in CalibrationInputs
    /\ pc = "idle"
    /\ arg = NoLocals
    /\ res = Returned(<<>>)
    /\ locals = NoLocals
    /\ TrackingInit

-----------------------------------------------------------------------------
(* Property assignments.  Objects are passed by reference: a call changes  *)
(* the calibration data or a landmark map it was given exactly when it      *)
(* assigns to a property of one of them.  An object is named by its         *)
(* origin: created by the call (fresh), the landmarks object of a           *)
(* calibration frame, or the landmark map passed by the caller.  A store    *)
(* is one assignment base[key] = value; Stores of a function are the        *)
(* assignments a call executes, in order, those of its callees included.    *)

FreshObject(name) == <<"fresh", name>>
CalibrationLandmarks(key) == <<"calibrationData", key, "landmarks">>
PassedLandmarks == <<"landmarks">>

Store(base, key, value) == [base |-> base, key |-> key, value |-> value]

\* the object literal name = { key: record[key], ... }
LiteralStores(name, record, keys) ==
    [j \in DOMAIN keys |-> Store(FreshObject(name), keys[j], record[keys[j]])]

\* mutant: the static shape is built in the neutral frame's landmarks object
staticTargetShapeObject_NeutralLandmarks == CalibrationLandmarks("neutral")

\* const staticTargetShape = {}
staticTargetShapeObject == FreshObject("staticTargetShape")

\* const targetLandmarks = {}
targetLandmarksObject == FreshObject("targetLandmarks")

\* the frames the static shape of vowel reads for each id
FramesRead(vowel) ==
    IF isCalibrated(vowel) THEN {calibratedKey(vowel)} ELSE {"neutral", "a", "u", "i"}

\* the ids the forEach over allMouthIds gets through: all, or those before
\* the first id that a frame read lacks (reading its coordinate throws)
IdsStored(calibrationData, keys) ==
    LET present(j) == \A k \in keys :
                          ToStr(allMouthIds[j]) \in DOMAIN calibrationData[k].landmarks
        n == CHOOSE n \in 0..Len(allMouthIds) :
                /\ \A j \in 1..n : present(j)
                /\ n < Len(allMouthIds) => ~present(n + 1)
    IN  SubSeq(allMouthIds, 1, n)

\* staticTargetShape[id] = [...] of either branch
StaticShapeStores(calibrationData, vowel) ==
    IF ~isCalibrated(vowel) /\ ~HasProperty(VOWEL_COEFFS_MONO, vowel) THEN <<>>
    ELSE With(IdsStored(calibrationData, FramesRead(vowel)), LAMBDA ids :
         [j \in DOMAIN ids |->
            Store(staticTargetShapeObject, ToStr(ids[j]),
                  IF isCalibrated(vowel)
                  THEN CalibratedPoint(calibrationData, vowel, ids[j])
                  ELSE InterpolatedPoint(calibrationData,
                                         Member(VOWEL_COEFFS_MONO, vowel), ids[j]))])

\* the interpolating branch alone, for the coefficients coeffs
InterpolationStores(calibrationData, coeffs) ==
    With(IdsStored(calibrationData, {"neutral", "a", "u", "i"}), LAMBDA ids :
    [j \in DOMAIN ids |->
        Store(staticTargetShapeObject, ToStr(ids[j]),
              InterpolatedPoint(calibrationData, coeffs, ids[j]))])

\* computeHeadPoseAnchor assigns to no property; the frame it returns is a
\* literal whose origin is a literal of the nose's coordinates
computeHeadPoseAnchorStores(pose) ==
    IF ~pose.ok THEN <<>>
    ELSE [j \in 1..3 |->
            Store(FreshObject("origin"), <<"x", "y", "z">>[j], pose.value.origin[j])]
         \o LiteralStores("HeadPoseAnchor", pose.value,
                          <<"origin", "rightVector", "upVector", "forwardVector", "scale">>)

\* the assignments of one call of computeTargetLandmarks
computeTargetLandmarksStores(calibrationData, allLandmarks, vowel) ==
    With(computeTargetLandmarksRun(calibrationData, allLandmarks, vowel), LAMBDA run :
    With(StaticTargetShape(calibrationData, vowel), LAMBDA shape :
    StaticShapeStores(calibrationData, vowel)
    \o (IF ~shape.ok THEN <<>>
        ELSE With(computeHeadPoseAnchor(calibrationData.neutral.landmarks, FALSE),
                  LAMBDA calibratedPose :
             computeHeadPoseAnchorStores(calibratedPose)
             \o (IF ~calibratedPose.ok THEN <<>>
                 ELSE computeHeadPoseAnchorStores(
                          computeHeadPoseAnchor(allLandmarks, TRUE))
                      \o (IF ~run.result.ok THEN <<>>
                          ELSE [j \in DOMAIN allMouthIds |->
                                  Store(targetLandmarksObject, ToStr(allMouthIds[j]),
                                        run.result.value[allMouthIds[j]])]))))))

\* computeFeatures assigns to no property; it returns the literal { A, W, P }
computeFeaturesStores(features) ==
    IF ~features.ok THEN <<>>
    ELSE LiteralStores("FeatureVec", features.value, <<"A", "W", "P">>)

\* computeVowelBasis: its computeFeatures calls up to the first that throws,
\* then the literal it returns
computeVowelBasisStores(calibrationData) ==
    LET frames == <<"neutral", "a", "u", "i">>
        ok(j) == computeFeatures(calibrationData[frames[j]].landmarks).ok
        n == CHOOSE n \in 0..4 : (\A j \in 1..n : ok(j)) /\ (n < 4 => ~ok(n + 1))
        RECURSIVE calls(_)
        calls(j) ==
            IF j = 0 THEN <<>>
            ELSE calls(j - 1)
                 \o computeFeaturesStores(
                        computeFeatures(calibrationData[frames[j]].landmarks))
    IN  calls(n) \o (IF n < 4 THEN <<>>
                     ELSE LiteralStores("VowelBasis", computeVowelBasis(calibrationData).value,
                                        <<"open", "round", "spread", "features", "rates">>))

\* the stores to the object base, and the last of them to the property key
StoresTo(stores, base) == {j \in DOMAIN stores : stores[j].base = base}
LastStore(stores, base, key) ==
    LET hits == {j \in StoresTo(stores, base) : stores[j].key = key}
    IN  IF hits = {} THEN 0 ELSE CHOOSE j \in hits : \A l \in hits : l <= j

\* an object keyed by strings after the stores to it
ObjectAfter(object, base, stores) ==
    [ key \in DOMAIN object \cup {stores[j].key : j \in StoresTo(stores, base)} |->
        With(LastStore(stores, base, key), LAMBDA j :
             IF j = 0 THEN object[key] ELSE stores[j].value) ]

\* a landmark array after the stores to it (an index is the key's number)
ArrayAfter(array, base, stores) ==
    [ index \in DOMAIN array
                \cup {id \in AllIds : LastStore(stores, base, ToStr(id)) # 0} |->
        With(LastStore(stores, base, ToStr(index)), LAMBDA j :
             IF j = 0 THEN array[index] ELSE stores[j].value) ]

\* the calibration data after a call that executed stores
calibrationAfterCall(calibrationData, stores) ==
    [ k \in DOMAIN calibrationData |->
        [calibrationData[k] EXCEPT
            !.landmarks = ObjectAfter(@, CalibrationLandmarks(k), stores)] ]

-----------------------------------------------------------------------------
(* The calls.  arg holds the arguments as passed, and in after the landmark *)
(* map passed as the call leaves it.                                        *)

\* a frame handler calls computeTargetLandmarks(allLandmarks, vowel)
CallComputeTargetLandmarks ==
    /\ pc = "idle"
    /\ \E allLandmarks \in LiveInputs, vowel \in VowelInputs :
        \E run \in {computeTargetLandmarksRun(cal, allLandmarks, vowel)} :
        \E stores \in {computeTargetLandmarksStores(cal, allLandmarks, vowel)} :
            /\ arg' = [ allLandmarks |-> allLandmarks, vowel |-> vowel,
                        after |-> ArrayAfter(allLandmarks, PassedLandmarks, stores) ]
            /\ res' = run.result
            /\ locals' = run.locals
            /\ cal' = calibrationAfterCall(cal, stores)
    /\ pc' = "computeTargetLandmarks"
    /\ UNCHANGED trackingVars

\* computeHeadPoseAnchor on a detector result's landmark array
CallComputeHeadPoseAnchor ==
    /\ pc = "idle"
    /\ \E landmarks \in LiveInputs :
        \E pose \in {computeHeadPoseAnchor(landmarks, TRUE)} :
        \E stores \in {computeHeadPoseAnchorStores(pose)} :
            /\ arg' = [ landmarks |-> landmarks,
                        after |-> ArrayAfter(landmarks, PassedLandmarks, stores) ]
            /\ res' = pose
            /\ cal' = calibrationAfterCall(cal, stores)
    /\ pc' = "computeHeadPoseAnchor"
    /\ locals' = NoLocals
    /\ UNCHANGED trackingVars

\* the interpolation of the derived-vowel branch with given coefficients
CallInterpolate ==
    /\ pc = "idle"
    /\ \E coeffs \in CoeffInputs :
        /\ arg' = [coeffs |-> coeffs]
        /\ res' = InterpolatedShape(cal, coeffs)
        /\ cal' = calibrationAfterCall(cal, InterpolationStores(cal, coeffs))
    /\ pc' = "interpolate"
    /\ locals' = NoLocals
    /\ UNCHANGED trackingVars

CallComputeFeatures ==
    /\ pc = "idle"
    /\ \E landmarks \in FeatureInputs(cal) :
        \E features \in {computeFeatures(landmarks)} :
        \E stores \in {computeFeaturesStores(features)} :
            /\ arg' = [ landmarks |-> landmarks,
                        after |-> ObjectAfter(landmarks, PassedLandmarks, stores) ]
            /\ res' = features
            /\ cal' = calibrationAfterCall(cal, stores)
    /\ pc' = "computeFeatures"
    /\ locals' = NoLocals
    /\ UNCHANGED trackingVars

CallComputeVowelBasis ==
    /\ pc = "idle"
    /\ arg' = [cal |-> "calibrationData"]
    /\ res' = computeVowelBasis(cal)
    /\ pc' = "computeVowelBasis"
    /\ locals' = NoLocals
    /\ cal' = calibrationAfterCall(cal, computeVowelBasisStores(cal))
    /\ UNCHANGED trackingVars

\* vowelTarget(vowel, basis) with the basis of the calibration data
CallVowelTarget ==
    /\ pc = "idle"
    /\ \E basis \in {computeVowelBasis(cal)} :
         /\ basis.ok
         /\ \E vowel \in VowelInputs :
              /\ arg' = [vowel |-> vowel, basis |-> basis.value]
              /\ res' = vowelTarget(vowel, basis.value)
    /\ pc' = "vowelTarget"
    /\ locals' = NoLocals
    /\ UNCHANGED cal
    /\ UNCHANGED trackingVars

\* printMonoVowels(basis) with the basis of the calibration data
CallPrintMonoVowels ==
    /\ pc = "idle"
    /\ \E basis \in {computeVowelBasis(cal)} :
         /\ basis.ok
         /\ \E run \in {printMonoVowels(basis.value)} :
              /\ arg' = [basis |-> basis.value]
              /\ res' = run.result
              /\ locals' = [fn |-> "printMonoVowels", console |-> run.console]
    /\ pc' = "printMonoVowels"
    /\ UNCHANGED cal
    /\ UNCHANGED trackingVars

\* the call's result is consumed; the next call starts from idle
Return ==
    /\ pc # "idle"
    /\ pc' = "idle"
    /\ arg' = NoLocals
    /\ res' = Returned(<<>>)
    /\ locals' = NoLocals
    /\ UNCHANGED cal
    /\ UNCHANGED trackingVars

Next ==
    \/ CallComputeTargetLandmarks
    \/ CallComputeHeadPoseAnchor
    \/ CallInterpolate
    \/ CallComputeFeatures
    \/ CallComputeVowelBasis
    \/ CallVowelTarget
    \/ CallPrintMonoVowels
    \/ Return

Spec == Init /\ [][Next]_vars

-----------------------------------------------------------------------------
(* The smoother alone: smoothBlendshapes called on a sequence of samples *)

\* numeric blendshape arrays (scores in 0..1) a detector delivers
BlendInputs ==
    { <<Zero, One>>, <<One, Zero>>, <<Num(1, 2), Num(1, 2)>> }

SmootherInit ==
    /\ cal = CalibrationSet("frontal", {})
    /\ pc = "idle"
    /\ arg = NoLocals
    /\ res = Returned(<<>>)
    /\ locals = NoLocals
    /\ TrackingInit

CallSmoothBlendshapes ==
    /\ samples < MaxSamples
    /\ \E newBlendshapes \in BlendInputs :
        \E run \in {smoothBlendshapes(history, newBlendshapes)} :
            /\ arg' = [newBlendshapes |-> newBlendshapes]
            /\ res' = Returned(run.value)
            /\ history' = run.history
    /\ samples' = samples + 1
    /\ pc' = "smoothBlendshapes"
    /\ UNCHANGED <<cal, locals, cameras, microtasks, frame, frameErrors, ui, pageVars>>

SmootherNext == CallSmoothBlendshapes

SpecSmoother == SmootherInit /\ [][SmootherNext]_vars

\* the histories smoothBlendshapes leaves after at most two samples
SmootherStates ==
    LET one == {smoothBlendshapes(<<>>, v).history : v \in BlendInputs}
        two == {smoothBlendshapes(h, v).history : h \in one, v \in BlendInputs}
    IN  {<<>>} \cup one \cup two

\* any smoother state, and the constant vector about to be fed
ConstantFeedInit ==
    /\ cal = CalibrationSet("frontal", {})
    /\ pc = "idle"
    /\ locals = NoLocals
    /\ history \in SmootherStates
    /\ arg \in {[newBlendshapes |-> c] : c \in BlendInputs}
    /\ res = Returned(IF history = <<>> THEN <<>> ELSE history[Len(history)])
    /\ samples = 0
    /\ cameras = <<>>
    /\ microtasks = <<>>
    /\ frame = [kind |-> "none"]
    /\ frameErrors = 0
    /\ ui = [isInitialized |-> FALSE, error |-> "null", innerHTML |-> <<>>]
    /\ capture = [mounted |-> FALSE]
    /\ app = [mode |-> "practice"]

\* the same vector is given to smoothBlendshapes again
FeedConstant ==
    /\ samples < MaxFeed
    /\ \E run \in {smoothBlendshapes(history, arg.newBlendshapes)} :
        /\ res' = Returned(run.value)
        /\ history' = run.history
    /\ samples' = samples + 1
    /\ pc' = "smoothBlendshapes"
    /\ UNCHANGED <<cal, arg, locals, cameras, microtasks, frame, frameErrors, ui, pageVars>>

ConstantFeedNext == FeedConstant

SpecConstantFeed ==
    ConstantFeedInit /\ [][ConstantFeedNext]_vars /\ WF_vars(FeedConstant)

-----------------------------------------------------------------------------
(* The tracking component (CameraComponent).  Each run of its effect       *)
(* creates a Camera; a started Camera calls the frame handler from its      *)
(* animation loop.  The video and canvas elements and the 2d context are    *)
(* taken to exist; the landmarks-display element may be absent.             *)

\* at most MaxEffectRuns runs of the effect
MaxEffectRuns == 2
\* at most MaxFrames animation ticks in all
MaxFrames == 2

BLENDSHAPE_NAMES ==
    << "neutral", "browDownLeft", "browDownRight", "browInnerUp", "browOuterUpLeft",
       "browOuterUpRight", "eyeLookDownLeft", "eyeLookDownRight", "eyeLookInLeft",
       "eyeLookInRight", "eyeLookOutLeft", "eyeLookOutRight", "eyeLookUpLeft",
       "eyeLookUpRight", "eyeSquintLeft", "eyeSquintRight", "eyeWideLeft", "eyeWideRight",
       "jawForward", "jawLeft", "jawOpen", "jawRight", "mouthClose", "mouthDimpleLeft",
       "mouthDimpleRight", "mouthFrownLeft", "mouthFrownRight", "mouthFunnel",
       "mouthLeft", "mouthLowerDownLeft", "mouthLowerDownRight", "mouthPressLeft",
       "mouthPressRight", "mouthPucker", "mouthRight", "mouthRollLower", "mouthRollUpper",
       "mouthShrugLower", "mouthShrugUpper", "mouthSmileLeft", "mouthSmileRight",
       "mouthStretchLeft", "mouthStretchRight", "mouthUpperUpLeft", "mouthUpperUpRight",
       "noseSneerLeft", "noseSneerRight" >>

TARGET_BLENDSHAPES ==
    <<"jawOpen", "mouthPucker", "mouthSmileLeft", "mouthSmileRight", "mouthFunnel">>
ADDITIONAL_BLENDSHAPES ==
    <<"mouthClose", "mouthStretchLeft", "mouthStretchRight", "browInnerUp">>

TRACKED_LANDMARKS == FACE_ANCHORS \o MOUTH_LANDMARKS

\* the letter U+3154
TARGET_VOWEL == "E"

\* Array.prototype.indexOf, counting from 0; -1 when absent
indexOf(array, x) ==
    IF \E j \in DOMAIN array : array[j] = x
    THEN (CHOOSE j \in DOMAIN array : array[j] = x /\ \A k \in 1..(j - 1) : array[k] # x) - 1
    ELSE -1

includes(array, x) == \E j \in DOMAIN array : array[j] = x

\* the concatenation of the sequences of a sequence
RECURSIVE Flatten(_)
Flatten(seqs) == IF seqs = <<>> THEN <<>> ELSE Head(seqs) \o Flatten(Tail(seqs))

\* "(x, y, z)" with three decimals
Coordinates(p) ==
    "(" \o toFixed3(p[1]) \o ", " \o toFixed3(p[2]) \o ", " \o toFixed3(p[3]) \o ")"

extractTrackedLandmarks(landmarks) ==
    [j \in DOMAIN TRACKED_LANDMARKS |->
        [index |-> TRACKED_LANDMARKS[j], point |-> landmarks[TRACKED_LANDMARKS[j]]]]

\* A detector result's faceBlendshapes is [faces |-> "absent"] (undefined or
\* empty), [faces |-> "numbers", first |-> v] (the first face is the array v
\* of numbers), [faces |-> "categories", first |-> c] (the first face is an
\* object whose categories is the array c of records) or
\* [faces |-> "objects", all |-> a] (the faces a are other objects).  The
\* value returned carries the typeof of its elements.
extractBlendshapes(results) ==
    IF results.faceBlendshapes.faces = "absent"
    THEN [elements |-> "none", items |-> <<>>]
    ELSE IF results.faceBlendshapes.faces = "numbers"
    THEN [elements |-> IF results.faceBlendshapes.first = <<>> THEN "none" ELSE "number",
          items |-> results.faceBlendshapes.first]
    ELSE IF results.faceBlendshapes.faces = "categories"
    THEN [elements |-> IF results.faceBlendshapes.first = <<>> THEN "none" ELSE "object",
          items |-> results.faceBlendshapes.first]
    ELSE [elements |-> "object", items |-> results.faceBlendshapes.all]

\* bs.categoryName || bs.category || bs.name || ''
NameOf(bs) ==
    IF "categoryName" \in DOMAIN bs /\ bs.categoryName # "" THEN bs.categoryName
    ELSE IF "category" \in DOMAIN bs /\ bs.category # "" THEN bs.category
    ELSE IF "name" \in DOMAIN bs /\ bs.name # "" THEN bs.name
    ELSE ""

\* bs.score || bs.value || 0
ScoreOf(bs) ==
    IF "score" \in DOMAIN bs /\ OrZero(bs.score) # Zero THEN bs.score
    ELSE IF "value" \in DOMAIN bs /\ OrZero(bs.value) # Zero THEN bs.value
    ELSE Zero

ScoreLine(name, score) == name \o ": " \o toFixed3(score)

\* the lines of the records whose name is one of names, in array order
ObjectLines(blendshapes, names) ==
    Flatten([j \in DOMAIN blendshapes |->
        IF includes(names, NameOf(blendshapes[j]))
        THEN <<ScoreLine(NameOf(blendshapes[j]), ScoreOf(blendshapes[j]))>>
        ELSE <<>>])

displayBlendshapesAsObjects(blendshapes) ==
    <<"Target Blendshapes:">>
        \o (IF ObjectLines(blendshapes, TARGET_BLENDSHAPES) # <<>>
            THEN ObjectLines(blendshapes, TARGET_BLENDSHAPES)
            ELSE <<"No target blendshapes found">>)
        \o <<"Additional Pronunciation Blendshapes:">>
        \o ObjectLines(blendshapes, ADDITIONAL_BLENDSHAPES)

\* the lines of the names whose index lies within the array, in name order
NumberLines(blendshapes, names) ==
    Flatten([j \in DOMAIN names |->
        IF indexOf(BLENDSHAPE_NAMES, names[j]) # -1
              /\ indexOf(BLENDSHAPE_NAMES, names[j]) < Len(blendshapes)
        THEN <<ScoreLine(names[j], blendshapes[indexOf(BLENDSHAPE_NAMES, names[j]) + 1])>>
        ELSE <<>>])

displayBlendshapesAsNumbers(blendshapes) ==
    NumberLines(blendshapes, TARGET_BLENDSHAPES)
        \o <<"Additional Pronunciation Blendshapes:">>
        \o NumberLines(blendshapes, ADDITIONAL_BLENDSHAPES)

\* a detector result's landmark array with every tracked index
LiveFace(pose, shift, shape) ==
    LET an == PoseAnchors(pose, shift)
    IN  [ id \in AllIds |->
            IF id = 1 THEN an.nose
            ELSE IF id = 133 THEN an.leftEye
            ELSE IF id = 362 THEN an.rightEye
            ELSE MouthPoint(shape, id) ]

FrontalFace == LiveFace("frontal", 0, "neutral")
RolledFace == LiveFace("roll", 1, "a")
LiveFaces == {FrontalFace, RolledFace}

\* the calibration files the component is built with: a complete one, and
\* one whose frame of U+315C lacks the landmark 13
TrackingCalibrations == {CalibrationSet("frontal", {}), CalibrationSet("pitch", {13})}

\* the lines of the anchors (with their labels) and of the lip landmarks
LandmarkLines(trackedLandmarks) ==
    [j \in DOMAIN trackedLandmarks |->
        (IF j > 3 THEN ""
         ELSE IF trackedLandmarks[j].index = 1 THEN "Nose "
         ELSE IF trackedLandmarks[j].index = 133 THEN "L Eye Inner "
         ELSE "R Eye Inner ")
        \o "[" \o ToStr(trackedLandmarks[j].index) \o "]: "
        \o Coordinates(trackedLandmarks[j].point)]

\* the landmark lines of the faces above, each computed once
LinesOfFace == [f \in LiveFaces |-> LandmarkLines(extractTrackedLandmarks(f))]

\* mutant: an early return forgets the smoother's history
EarlyReturn_DropsHistory(hist, innerHTML) ==
    [ history |-> <<>>, innerHTML |-> innerHTML, calls |-> <<>>,
      blendshapes |-> [elements |-> "none", items |-> <<>>] ]

\* updateLandmarksDisplay returning before it reads the landmarks
EarlyReturn(hist, innerHTML) ==
    [ history |-> hist, innerHTML |-> innerHTML, calls |-> <<>>,
      blendshapes |-> [elements |-> "none", items |-> <<>>] ]

\* blendshapes.length > 0 && typeof blendshapes[0] === 'number'
IsNumberArray(blendshapes) ==
    Len(blendshapes.items) > 0 /\ blendshapes.elements = "number"

\* the history left, the innerHTML left in the display element, the calls
\* made and the blendshapes shown
updateLandmarksDisplay(hist, innerHTML, results, displayElement) ==
    IF ~displayElement THEN EarlyReturn(hist, innerHTML)
    ELSE IF results.detect = "null"
    THEN EarlyReturn(hist, <<"No results available">>)
    ELSE IF Len(results.faceLandmarks) = 0
    THEN EarlyReturn(hist, <<"No face detected">>)
    ELSE
    With(extractBlendshapes(results), LAMBDA extracted :
    With(IF IsNumberArray(extracted)
         THEN smoothBlendshapes(hist, extracted.items)
         ELSE [history |-> hist, value |-> extracted.items], LAMBDA run :
    With(LinesOfFace[results.faceLandmarks[1]], LAMBDA lines :
    [ history |-> run.history,
      innerHTML |->
          <<"Live Stream Mode", "Face Anchors (Head Pose):">>
          \o SubSeq(lines, 1, 3)
          \o <<"Outer Lip Landmarks (20 points):">>
          \o SubSeq(lines, 4, 23)
          \o <<"Inner Lip Landmarks (20 points):">>
          \o SubSeq(lines, 24, 43)
          \o <<"Total Tracked: 43 points (3 face + 40 mouth) / 478">>
          \o (IF Len(run.value) > 0
              THEN <<"Face Blend Shapes:">>
                   \o (IF extracted.elements = "number"
                       THEN displayBlendshapesAsNumbers(run.value)
                       ELSE IF extracted.elements = "object"
                       THEN displayBlendshapesAsObjects(run.value)
                       ELSE <<"Unsupported blendshapes format">>)
              ELSE <<"Face Blend Shapes: No blendshapes data">>),
      calls |-> <<"extractTrackedLandmarks", "extractBlendshapes">>
                \o (IF IsNumberArray(extracted) THEN <<"smoothBlendshapes">> ELSE <<>>)
                \o (IF Len(run.value) = 0 THEN <<>>
                    ELSE IF extracted.elements = "number"
                    THEN <<"displayBlendshapesAsNumbers">>
                    ELSE IF extracted.elements = "object"
                    THEN <<"displayBlendshapesAsObjects">>
                    ELSE <<>>),
      blendshapes |-> [elements |-> extracted.elements, items |-> run.value] ])))

\* the index lists the frame handler draws the live and the target contours with
outerLipPoints ==
    <<61, 185, 40, 39, 37, 0, 267, 269, 270, 409,
      291, 375, 321, 405, 314, 17, 84, 181, 91, 146>>
innerLipPoints ==
    <<78, 191, 80, 81, 82, 13, 312, 311, 310, 415,
      308, 324, 318, 402, 317, 14, 87, 178, 88, 95>>
targetOuterLipIds ==
    <<61, 185, 40, 39, 37, 0, 267, 269, 270, 409,
      291, 375, 321, 405, 314, 17, 84, 181, 91, 146>>
targetInnerLipIds ==
    <<78, 191, 80, 81, 82, 13, 312, 311, 310, 415,
      308, 324, 318, 402, 317, 14, 87, 178, 88, 95>>

\* the steps computeTargetLandmarks takes before it returns or throws
computeTargetLandmarksCalls(calibrationData, allLandmarks, vowel) ==
    IF ~StaticTargetShape(calibrationData, vowel).ok THEN <<"staticTargetShape">>
    ELSE IF ~computeHeadPoseAnchor(calibrationData.neutral.landmarks, FALSE).ok
    THEN <<"staticTargetShape", "computeHeadPoseAnchor">>
    ELSE IF ~computeHeadPoseAnchor(allLandmarks, TRUE).ok
    THEN <<"staticTargetShape", "computeHeadPoseAnchor", "computeHeadPoseAnchor">>
    ELSE <<"staticTargetShape", "computeHeadPoseAnchor", "computeHeadPoseAnchor",
           "targetLandmarks">>

\* computeTargetLandmarks(allLandmarks, TARGET_VOWEL) and the steps it takes,
\* for the calibrations and faces above, each computed once
TargetOfFace ==
    [ c \in TrackingCalibrations, f \in LiveFaces |->
        [ result |-> computeTargetLandmarks(c, f, TARGET_VOWEL),
          calls |-> computeTargetLandmarksCalls(c, f, TARGET_VOWEL) ] ]

NoTarget == <<>>

\* updateLandmarksDisplay was not reached
NotShown(hist, innerHTML) ==
    [ history |-> hist, innerHTML |-> innerHTML, calls |-> <<>>,
      blendshapes |-> [elements |-> "none", items |-> <<>>] ]

\* what one call of the frame handler did: the calls it made in order, the
\* call whose exception it caught and logged (or ""), the target it drew,
\* and the history and display text it left
FrameRun(calls, caught, target, shown) ==
    [ calls |-> calls, caught |-> caught, targetLandmarks |-> target,
      history |-> shown.history, innerHTML |-> shown.innerHTML,
      blendshapes |-> shown.blendshapes ]

\* the handler from onResults on (the drawing has been done)
AfterDrawing(calls, target, hist, innerHTML, onResults, input) ==
    With(updateLandmarksDisplay(hist, innerHTML, input, input.displayElement),
         LAMBDA shown :
    FrameRun(calls \o (IF onResults # "undefined" THEN <<"onResults">> ELSE <<>>)
                   \o <<"updateLandmarksDisplay">> \o shown.calls,
             "", target, shown))

\* options.onFrame: one call of the frame handler on the detector's answer
onFrameHandler(calibrationData, hist, innerHTML, onResults, input) ==
    IF ~input.videoReady
    THEN FrameRun(<<>>, "", NoTarget, NotShown(hist, innerHTML))
    ELSE IF input.detect = "throws"
    THEN FrameRun(<<"detectForVideo">>, "detectForVideo", NoTarget,
                  NotShown(hist, innerHTML))
    ELSE IF input.detect = "null"
    THEN FrameRun(<<"detectForVideo", "drawImage">>, "TypeError", NoTarget,
                  NotShown(hist, innerHTML))
    ELSE IF Len(input.faceLandmarks) = 0
    THEN AfterDrawing(<<"detectForVideo", "drawImage">>, NoTarget,
                      hist, innerHTML, onResults, input)
    ELSE
    With(TargetOfFace[calibrationData, input.faceLandmarks[1]], LAMBDA target :
    IF ~target.result.ok
    THEN FrameRun(<<"detectForVideo", "drawImage", "liveContours">>
                      \o target.calls,
                  "computeTargetLandmarks", NoTarget, NotShown(hist, innerHTML))
    ELSE AfterDrawing(<<"detectForVideo", "drawImage", "liveContours">>
                          \o target.calls
                          \o <<"targetContours">>,
                      target.result.value, hist, innerHTML, onResults, input))

-----------------------------------------------------------------------------
(* The frames given to the handler *)

\* a numeric blendshape array that reaches up to jawOpen
JawOpenScores(score) ==
    [j \in 1..(indexOf(BLENDSHAPE_NAMES, "jawOpen") + 1) |->
        IF BLENDSHAPE_NAMES[j] = "jawOpen" THEN score ELSE Zero]

\* the categories of a detector's classification of one face
JawOpenCategories(score) ==
    << [categoryName |-> "jawOpen", score |-> score],
       [categoryName |-> "mouthClose", score |-> Zero],
       [categoryName |-> "eyeWideLeft", score |-> One] >>

Payloads ==
    { [faces |-> "absent"],
      [faces |-> "numbers", first |-> JawOpenScores(One)],
      [faces |-> "numbers", first |-> JawOpenScores(Num(1, 2))],
      [faces |-> "categories", first |-> JawOpenCategories(One)] }

FrameInput(videoReady, detect, faceLandmarks, faceBlendshapes, displayElement) ==
    [ videoReady |-> videoReady, detect |-> detect, faceLandmarks |-> faceLandmarks,
      faceBlendshapes |-> faceBlendshapes, displayElement |-> displayElement ]

SkippedInputs ==
    { FrameInput(FALSE, "results", <<>>, [faces |-> "absent"], TRUE),
      FrameInput(TRUE, "throws", <<>>, [faces |-> "absent"], TRUE),
      FrameInput(TRUE, "null", <<>>, [faces |-> "absent"], TRUE),
      FrameInput(TRUE, "results", <<>>, [faces |-> "absent"], TRUE) }

FaceInputs ==
    { FrameInput(TRUE, "results", <<FrontalFace>>, p, TRUE) : p \in Payloads }
    \cup { FrameInput(TRUE, "results", <<RolledFace>>,
                        [faces |-> "numbers", first |-> JawOpenScores(One)], FALSE) }

FrameInputs == SkippedInputs \cup FaceInputs

\* what the detector said of the frame
KindOf(input) ==
    IF ~input.videoReady THEN "notReady"
    ELSE IF input.detect = "throws" THEN "detectThrows"
    ELSE IF input.detect = "null" THEN "noResult"
    ELSE IF Len(input.faceLandmarks) = 0 THEN "noFace"
    ELSE "face"

-----------------------------------------------------------------------------
(* The state machine of the tracking component *)

\* the values of the onResults prop
OnResultsProps == {"undefined", "f"}

TotalFrames == LET RECURSIVE Sum(_)
                   Sum(k) == IF k = 0 THEN 0 ELSE Sum(k - 1) + cameras[k].frames
               IN  Sum(Len(cameras))

TrackingSpecInit ==
    /\ cal \in TrackingCalibrations
    /\ pc = "idle"
    /\ arg = NoLocals
    /\ res = Returned(<<>>)
    /\ locals = NoLocals
    /\ TrackingInit

\* the effect runs: at mount, and again when onResults has changed; it has
\* no cleanup, so the cameras of earlier runs stay as they are
RunEffect ==
    /\ Len(cameras) < MaxEffectRuns
    /\ TotalFrames < MaxFrames
    /\ microtasks = <<>>
    /\ \E onResults \in OnResultsProps :
        /\ cameras # <<>> => onResults # cameras[Len(cameras)].onResults
        /\ cameras' = Append(cameras,
              [ onResults |-> onResults, status |-> "initializing",
                isProcessing |-> FALSE, frames |-> 0, samples |-> 0 ])
    /\ UNCHANGED <<cal, callVars, history, samples, microtasks, frame, frameErrors, ui, pageVars>>

\* an await of initializeCamera rejects: the outer catch sets the error
InitializeFails ==
    /\ microtasks = <<>>
    /\ \E i \in DOMAIN cameras :
        /\ cameras[i].status = "initializing"
        /\ cameras' = [cameras EXCEPT ![i].status = "failed"]
    /\ ui' = [ui EXCEPT !.error = "Camera initialization failed"]
    /\ UNCHANGED <<cal, callVars, history, samples, microtasks, frame, frameErrors, pageVars>>

\* mutant: the finally callback leaves the flag set
isProcessingAfterFinally_StaysSet == TRUE

\* the value the finally callback gives isProcessing
isProcessingAfterFinally == FALSE

\* mutant: the callback starts the handler whatever the flag says
StartsProcessing_Always(camera) == TRUE

\* this.options.onFrame && !this.isProcessing (options.onFrame is always given)
StartsProcessing(camera) == ~camera.isProcessing

\* the animation callback onFrame of camera i, the detector answering input;
\* after holds the reactions queued behind the handler's finally callback
AnimationFrame(i, input, after) ==
    IF ~StartsProcessing(cameras[i])
    THEN /\ frame' = [ camera |-> i, kind |-> "dropped", calls |-> <<>>, caught |-> "",
                       targetLandmarks |-> NoTarget, payload |-> input.faceBlendshapes,
                       blendshapes |-> [elements |-> "none", items |-> <<>>],
                       first |-> FALSE ]
         /\ cameras' = [cameras EXCEPT ![i].frames = @ + 1, ![i].status = "running"]
         /\ microtasks' = microtasks \o after
         /\ UNCHANGED <<history, samples, frameErrors, ui>>
    ELSE \E run \in {onFrameHandler(cal, history, ui.innerHTML, cameras[i].onResults, input)} :
         \E stepped \in {IF includes(run.calls, "smoothBlendshapes") THEN 1 ELSE 0} :
            /\ frame' = [ camera |-> i, kind |-> KindOf(input), calls |-> run.calls,
                          caught |-> run.caught, targetLandmarks |-> run.targetLandmarks,
                          payload |-> input.faceBlendshapes,
                          blendshapes |-> run.blendshapes,
                          first |-> stepped = 1 /\ cameras[i].samples = 0 ]
            /\ history' = run.history
            /\ samples' = samples + stepped
            /\ ui' = [ui EXCEPT !.innerHTML = run.innerHTML]
            /\ frameErrors' = frameErrors + (IF run.caught # "" THEN 1 ELSE 0)
            /\ cameras' = [cameras EXCEPT ![i].frames = @ + 1, ![i].status = "running",
                                          ![i].isProcessing = TRUE,
                                          ![i].samples = @ + stepped]
            /\ microtasks' = microtasks \o <<[task |-> "finally", camera |-> i]>> \o after

\* camera.start() gets its stream and calls onFrame() for the first time;
\* initializeCamera resumes after it
StartLoop ==
    /\ microtasks = <<>>
    /\ TotalFrames < MaxFrames
    /\ \E i \in DOMAIN cameras :
        /\ cameras[i].status = "initializing"
        /\ \E input \in FrameInputs :
            AnimationFrame(i, input, <<[task |-> "initialized", camera |-> i]>>)
    /\ UNCHANGED <<cal, callVars, pageVars>>

\* requestAnimationFrame calls onFrame of a running camera
Tick ==
    /\ microtasks = <<>>
    /\ TotalFrames < MaxFrames
    /\ \E i \in DOMAIN cameras :
        /\ cameras[i].status = "running"
        /\ \E input \in FrameInputs : AnimationFrame(i, input, <<>>)
    /\ UNCHANGED <<cal, callVars, pageVars>>

\* the finally callback of a handler's promise
Finally ==
    /\ microtasks # <<>>
    /\ Head(microtasks).task = "finally"
    /\ cameras' = [cameras EXCEPT
                     ![Head(microtasks).camera].isProcessing = isProcessingAfterFinally]
    /\ microtasks' = Tail(microtasks)
    /\ UNCHANGED <<cal, callVars, history, samples, frame, frameErrors, ui, pageVars>>

\* initializeCamera after await camera.start()
Initialized ==
    /\ microtasks # <<>>
    /\ Head(microtasks).task = "initialized"
    /\ ui' = [ui EXCEPT !.isInitialized = TRUE, !.error = "null"]
    /\ microtasks' = Tail(microtasks)
    /\ UNCHANGED <<cal, callVars, history, samples, cameras, frame, frameErrors, pageVars>>

TrackingNext ==
    \/ RunEffect
    \/ InitializeFails
    \/ StartLoop
    \/ Tick
    \/ Finally
    \/ Initialized

SpecTracking == TrackingSpecInit /\ [][TrackingNext]_vars

-----------------------------------------------------------------------------
(* The Camera class alone.  Its options.onFrame is any async function: the  *)
(* promise it returns is settled when the call returns (the handler of the  *)
(* tracking component, which awaits nothing) or in a later task (a handler  *)
(* that awaits), fulfilled or rejected.  A camera is                        *)
(* [isProcessing, inFlight, frames]: inFlight counts the handler calls      *)
(* whose promise is not settled yet.                                        *)

\* at most MaxTicks animation ticks per camera
MaxTicks == 4

\* the Camera instances observed
CameraIds == {1, 2}

CameraInit ==
    /\ cal = CalibrationSet("frontal", {})
    /\ pc = "idle"
    /\ arg = NoLocals
    /\ res = Returned(<<>>)
    /\ locals = NoLocals
    /\ history = <<>>
    /\ samples = 0
    /\ cameras = [i \in CameraIds |-> [isProcessing |-> FALSE, inFlight |-> 0, frames |-> 0]]
    /\ microtasks = <<>>
    /\ frame = [kind |-> "none"]
    /\ frameErrors = 0
    /\ ui = [isInitialized |-> FALSE, error |-> "null", innerHTML |-> <<>>]
    /\ capture = [mounted |-> FALSE]
    /\ app = [mode |-> "practice"]

\* requestAnimationFrame calls onFrame of camera i; the handler, if started,
\* returns a settled promise (awaits = FALSE) or a pending one
CameraTick ==
    /\ microtasks = <<>>
    /\ \E i \in CameraIds, awaits \in BOOLEAN :
        /\ cameras[i].frames < MaxTicks
        /\ IF StartsProcessing(cameras[i])
           THEN /\ cameras' = [cameras EXCEPT ![i].isProcessing = TRUE,
                                              ![i].frames = @ + 1,
                                              ![i].inFlight = IF awaits THEN @ + 1 ELSE @]
                /\ microtasks' = IF awaits THEN microtasks
                                 ELSE Append(microtasks, [task |-> "finally", camera |-> i])
                /\ frame' = [camera |-> i, kind |-> "started", awaits |-> awaits]
           ELSE /\ cameras' = [cameras EXCEPT ![i].frames = @ + 1]
                /\ microtasks' = microtasks
                /\ frame' = [camera |-> i, kind |-> "dropped", awaits |-> FALSE]
    /\ UNCHANGED <<cal, callVars, history, samples, frameErrors, ui, pageVars>>

\* what a pending handler awaited completes in a later task: its promise is
\* fulfilled or rejected, and the finally callback is queued either way
HandlerSettles ==
    /\ microtasks = <<>>
    /\ \E i \in CameraIds, outcome \in {"fulfilled", "rejected"} :
        /\ cameras[i].inFlight > 0
        /\ cameras' = [cameras EXCEPT ![i].inFlight = @ - 1]
        /\ microtasks' = Append(microtasks, [task |-> "finally", camera |-> i])
        /\ frame' = [camera |-> i, kind |-> outcome, awaits |-> TRUE]
    /\ UNCHANGED <<cal, callVars, history, samples, frameErrors, ui, pageVars>>

CameraNext ==
    \/ CameraTick
    \/ HandlerSettles
    \/ Finally

SpecCamera == CameraInit /\ [][CameraNext]_vars

-----------------------------------------------------------------------------
(* The calibration tool (CalibrationCapture).  The component is mounted     *)
(* with its video and canvas elements; its effect starts                    *)
(* initializeMediaPipe, whose awaits resume one at a time.  A callback      *)
(* that sets state after the unmount changes nothing.  Each action is a    *)
(* task of the event loop: it starts when no microtask is pending.          *)

\* the options of the vowel select
CaptureVowels == {"neutral", "a", "u", "i"}

\* the countdown loop starts at i = 3
CountdownFrom == 3

\* an object without keys
EmptyObject == [k \in {} |-> Zero]

\* the component as first rendered, its effect having called
\* initializeMediaPipe up to the first await
CaptureMounted ==
    [ mounted |-> TRUE, cleanedUp |-> FALSE, init |-> "forVisionTasks",
      faceLandmarkerRef |-> FALSE, isInitialized |-> FALSE,
      currentVowel |-> "neutral", calibrationData |-> EmptyObject,
      isCapturing |-> FALSE, countdown |-> 0,
      attempt |-> [active |-> FALSE, vowel |-> "neutral", i |-> 0, reselected |-> FALSE],
      lastAttempt |-> "none",
      animationFrameRef |-> FALSE, loop |-> "none",
      frameAfterCleanup |-> FALSE,
      downloaded |-> FALSE, file |-> EmptyObject ]

\* bs.categoryName || bs.displayName || ''
CaptureNameOf(bs) ==
    IF "categoryName" \in DOMAIN bs /\ bs.categoryName # "" THEN bs.categoryName
    ELSE IF "displayName" \in DOMAIN bs /\ bs.displayName # "" THEN bs.displayName
    ELSE ""

\* capturedLandmarks: every registry index, keyed by index.toString()
capturedLandmarks(landmarks) ==
    [ key \in {ToStr(index) : index \in Range(ALL_TRACKED_LANDMARKS)} |->
        landmarks[CHOOSE index \in Range(ALL_TRACKED_LANDMARKS) : ToStr(index) = key] ]

\* capturedBlendshapes: bs.score || 0 of the last category of each target name
capturedBlendshapes(blendshapes) ==
    [ name \in {CaptureNameOf(blendshapes[j]) : j \in DOMAIN blendshapes}
                  \cap Range(TARGET_BLENDSHAPES) |->
        With(CHOOSE j \in DOMAIN blendshapes :
                 /\ CaptureNameOf(blendshapes[j]) = name
                 /\ \A l \in DOMAIN blendshapes :
                        CaptureNameOf(blendshapes[l]) = name => l <= j,
             LAMBDA j : IF "score" \in DOMAIN blendshapes[j]
                        THEN OrZero(blendshapes[j].score) ELSE Zero) ]

CapturedFrame(landmarks, blendshapes) ==
    [ landmarks |-> capturedLandmarks(landmarks),
      blendshapes |-> capturedBlendshapes(blendshapes) ]

\* the frames of the faces the detector answers with during a capture
CapturedFrames ==
    [ face \in LiveFaces |-> CapturedFrame(face, JawOpenCategories(One)) ]

\* the detector's answers to detectForVideo
DetectOutcomes == {"face", "noFace", "throws"}

\* the key a capture stores its frame under: currentVowel of the render
\* whose captureFrame was clicked
KeyOfCapture_CurrentSelection(attempt, selected) == selected
KeyOfCapture(attempt, selected) == attempt.vowel

\* prev => ({ ...prev, [key]: value })
SpreadWith(prev, key, value) ==
    [ k \in DOMAIN prev \cup {key} |-> IF k = key THEN value ELSE prev[k] ]

\* disabled={Object.keys(calibrationData).length < 4}
DownloadDisabled_Three(calibrationData) == Cardinality(DOMAIN calibrationData) < 3
DownloadDisabled(calibrationData) == Cardinality(DOMAIN calibrationData) < 4

\* the keys of the object written by downloadCalibration: the vowels and,
\* for each, the keys of its landmarks
downloadCalibration(calibrationData) ==
    [ vowel \in DOMAIN calibrationData |-> DOMAIN calibrationData[vowel].landmarks ]

\* disabled={!isInitialized || isCapturing}
CaptureDisabled(c) == ~c.isInitialized \/ c.isCapturing

\* one invocation of processFrame; detect is the answer of detectForVideo
processFrame(c, detect) ==
    With([c EXCEPT !.frameAfterCleanup = @ \/ c.cleanedUp],
         LAMBDA counted :
            IF c.mounted /\ c.faceLandmarkerRef /\ detect = "throws"
            THEN [counted EXCEPT !.loop = "stopped"]
            ELSE [counted EXCEPT !.animationFrameRef = TRUE, !.loop = "scheduled"])

\* an await of initializeMediaPipe resumes; detect answers the first
\* processFrame when startProcessing is reached
InitializeResumes ==
    /\ microtasks = <<>>
    /\ capture.init \in {"forVisionTasks", "createFromOptions", "getUserMedia", "play"}
    /\ \E detect \in DetectOutcomes :
        capture' =
            IF capture.init = "forVisionTasks"
            THEN [capture EXCEPT !.init = "createFromOptions"]
            ELSE IF capture.init = "createFromOptions"
            THEN [capture EXCEPT !.init = "getUserMedia", !.faceLandmarkerRef = TRUE]
            ELSE IF capture.init = "getUserMedia"
            THEN [capture EXCEPT !.init = IF capture.mounted THEN "play" ELSE "skipped"]
            ELSE processFrame([capture EXCEPT !.init = "done",
                                              !.isInitialized = capture.mounted],
                              detect)
    /\ UNCHANGED <<cal, callVars, history, samples, cameras, microtasks, frame,
                   frameErrors, ui, app>>

\* an awaited promise of initializeMediaPipe rejects: the catch logs it
InitializeRejects ==
    /\ microtasks = <<>>
    /\ capture.init \in {"forVisionTasks", "createFromOptions", "getUserMedia", "play"}
    /\ capture' = [capture EXCEPT !.init = "failed"]
    /\ UNCHANGED <<cal, callVars, history, samples, cameras, microtasks, frame,
                   frameErrors, ui, app>>

\* the browser runs the scheduled animation callback
ProcessFrame ==
    /\ microtasks = <<>>
    /\ capture.loop = "scheduled"
    /\ \E detect \in DetectOutcomes : capture' = processFrame(capture, detect)
    /\ UNCHANGED <<cal, callVars, history, samples, cameras, microtasks, frame,
                   frameErrors, ui, app>>

\* the effect's cleanup, the refs of the removed elements becoming null, and
\* the component's state being discarded
unmount(c) ==
    [c EXCEPT !.mounted = FALSE, !.cleanedUp = TRUE,
              !.loop = IF c.animationFrameRef /\ c.loop = "scheduled"
                       THEN "cancelled" ELSE c.loop,
              !.isInitialized = FALSE, !.currentVowel = "neutral",
              !.calibrationData = EmptyObject, !.isCapturing = FALSE,
              !.countdown = 0]

Unmount ==
    /\ microtasks = <<>>
    /\ capture.mounted
    /\ capture' = unmount(capture)
    /\ UNCHANGED <<cal, callVars, history, samples, cameras, microtasks, frame,
                   frameErrors, ui, app>>

\* the select's onChange
SelectVowel ==
    /\ microtasks = <<>>
    /\ capture.mounted
    /\ \E vowel \in CaptureVowels \ {capture.currentVowel} :
        capture' = [capture EXCEPT !.currentVowel = vowel,
                                   !.attempt.reselected = @ \/ capture.attempt.active]
    /\ UNCHANGED <<cal, callVars, history, samples, cameras, microtasks, frame,
                   frameErrors, ui, app>>

\* a click of the Capture button: captureFrame up to its first await
ClickCapture ==
    /\ microtasks = <<>>
    /\ capture.mounted
    /\ ~CaptureDisabled(capture)
    /\ capture.faceLandmarkerRef
    /\ capture' = [capture EXCEPT !.isCapturing = TRUE, !.countdown = CountdownFrom,
                                  !.lastAttempt = "running",
                                  !.attempt = [active |-> TRUE,
                                               vowel |-> capture.currentVowel,
                                               i |-> CountdownFrom,
                                               reselected |-> FALSE]]
    /\ UNCHANGED <<cal, callVars, history, samples, cameras, microtasks, frame,
                   frameErrors, ui, app>>

\* captureFrame after its countdown, the detector answering detect (and
\* landmarks when a face is found)
captureAfterCountdown(c, detect, landmarks) ==
    With([c EXCEPT !.countdown = 0, !.attempt.active = FALSE, !.attempt.i = 0],
         LAMBDA counted :
            IF detect = "throws" \/ ~c.mounted
            THEN [counted EXCEPT !.lastAttempt = "rejected"]
            ELSE IF detect = "face"
            THEN [counted EXCEPT
                    !.calibrationData =
                        SpreadWith(c.calibrationData,
                                   KeyOfCapture(c.attempt, c.currentVowel),
                                   CapturedFrames[landmarks]),
                    !.isCapturing = FALSE, !.lastAttempt = "captured"]
            ELSE [counted EXCEPT !.isCapturing = FALSE, !.lastAttempt = "noFace"])

\* the one-second timer of the countdown fires; the detector may see one
\* of faces
CountdownTimerOn(faces) ==
    /\ microtasks = <<>>
    /\ capture.attempt.active
    /\ \E detect \in DetectOutcomes, landmarks \in faces :
        /\ detect # "face" => landmarks = FrontalFace
        /\ capture' =
            IF capture.attempt.i > 1
            THEN [capture EXCEPT !.attempt.i = @ - 1,
                                 !.countdown = IF capture.mounted
                                               THEN capture.attempt.i - 1 ELSE @]
            ELSE captureAfterCountdown(capture, detect, landmarks)
    /\ UNCHANGED <<cal, callVars, history, samples, cameras, microtasks, frame,
                   frameErrors, ui, app>>

CountdownTimer == CountdownTimerOn(LiveFaces)

\* a click of the Download button: downloadCalibration
Download ==
    /\ microtasks = <<>>
    /\ capture.mounted
    /\ ~DownloadDisabled(capture.calibrationData)
    /\ capture' = [capture EXCEPT !.downloaded = TRUE,
                                  !.file = downloadCalibration(capture.calibrationData)]
    /\ UNCHANGED <<cal, callVars, history, samples, cameras, microtasks, frame,
                   frameErrors, ui, app>>

CaptureInit ==
    /\ cal = CalibrationSet("frontal", {})
    /\ pc = "idle"
    /\ arg = NoLocals
    /\ res = Returned(<<>>)
    /\ locals = NoLocals
    /\ history = <<>>
    /\ samples = 0
    /\ cameras = <<>>
    /\ microtasks = <<>>
    /\ frame = [kind |-> "none"]
    /\ frameErrors = 0
    /\ ui = [isInitialized |-> FALSE, error |-> "null", innerHTML |-> <<>>]
    /\ capture = CaptureMounted
    /\ app = [mode |-> "calibrate"]

CaptureNext ==
    \/ InitializeResumes
    \/ InitializeRejects
    \/ ProcessFrame
    \/ Unmount
    \/ SelectVowel
    \/ ClickCapture
    \/ CountdownTimer
    \/ Download

SpecCapture == CaptureInit /\ [][CaptureNext]_vars

-----------------------------------------------------------------------------
(* The App component: the mode and the view it renders.  The practice     *)
(* view (Calibration) renders a CameraComponent without an onResults prop:  *)
(* its effect runs once, and since the effect has no cleanup its camera     *)
(* goes on after the view is replaced by the calibration tool, the frame    *)
(* handler then finding videoRef.current null.                              *)

\* CalibrationCapture before App has rendered it
CaptureAbsent == [CaptureMounted EXCEPT !.mounted = FALSE, !.init = "none"]

\* mode === 'practice' ? <Calibration modeButtons={modeButtons} /> : <CalibrationCapture />
ViewShown(mode) == IF mode = "practice" THEN "Calibration" ELSE "CalibrationCapture"

\* the views that render the modeButtons element: Calibration does,
\* CalibrationCapture takes no props and renders no mode button
ModeButtonsShown(mode) == ViewShown(mode) = "Calibration"

\* setMode(mode) and the render that follows it
setMode(mode) ==
    /\ app' = [app EXCEPT !.mode = mode]
    /\ capture' =
        IF ViewShown(mode) = ViewShown(app.mode) THEN capture
        ELSE IF ViewShown(mode) = "CalibrationCapture" THEN CaptureMounted
        ELSE unmount(capture)
    /\ UNCHANGED <<cal, callVars, history, samples, cameras, microtasks, frame,
                   frameErrors, ui>>

\* the effect of the mounted CameraComponent has not run yet: React runs the
\* effects of a commit before it handles a click or starts the next render
EffectPending == ViewShown(app.mode) = "Calibration" /\ cameras = <<>>

ClickPracticeMode ==
    /\ microtasks = <<>>
    /\ ~EffectPending
    /\ ModeButtonsShown(app.mode)
    /\ setMode("practice")

\* the frames the practice view's camera is given while the view is shown
PracticeFrameInputs ==
    { FrameInput(TRUE, "results", <<>>, [faces |-> "absent"], TRUE),
      FrameInput(TRUE, "throws", <<>>, [faces |-> "absent"], TRUE),
      FrameInput(TRUE, "results", <<FrontalFace>>,
                 [faces |-> "categories", first |-> JawOpenCategories(One)], TRUE) }

\* the frames of the camera of <CameraComponent />: once Calibration is
\* unmounted videoRef.current is null
ViewFrameInputs(mode) ==
    IF ViewShown(mode) = "Calibration" THEN PracticeFrameInputs
    ELSE { FrameInput(FALSE, "results", <<>>, [faces |-> "absent"], TRUE) }

\* the effect of the CameraComponent that Calibration renders, at its mount:
\* initializeCamera up to its first await.  video tells whether the Camera
\* was constructed on a video element
CalibrationRunEffect ==
    /\ microtasks = <<>>
    /\ ViewShown(app.mode) = "Calibration"
    /\ cameras = <<>>
    /\ cameras' = <<[ onResults |-> "undefined", status |-> "initializing",
                      isProcessing |-> FALSE, frames |-> 0, samples |-> 0,
                      video |-> FALSE ]>>
    /\ UNCHANGED <<cal, callVars, history, samples, microtasks, frame, frameErrors,
                   ui, pageVars>>

\* import, forVisionTasks and createFromOptions have resolved:
\* new Camera(videoRef.current, ...) and camera.start() up to getUserMedia
CalibrationCameraCreated ==
    /\ microtasks = <<>>
    /\ cameras # <<>>
    /\ cameras[1].status = "initializing"
    /\ cameras' = [cameras EXCEPT ![1].status = "starting",
                                  ![1].video = ViewShown(app.mode) = "Calibration"]
    /\ UNCHANGED <<cal, callVars, history, samples, microtasks, frame, frameErrors,
                   ui, pageVars>>

\* setError of the catch: React ignores it once the component is unmounted
errorAfterCatch(mode) ==
    IF ViewShown(mode) = "Calibration" THEN "Camera initialization failed" ELSE ui.error

\* an await of initializeCamera rejects: the catch sets the error
CalibrationInitializeFails ==
    /\ microtasks = <<>>
    /\ cameras # <<>>
    /\ cameras[1].status \in {"initializing", "starting"}
    /\ cameras' = [cameras EXCEPT ![1].status = "failed"]
    /\ ui' = [ui EXCEPT !.error = errorAfterCatch(app.mode)]
    /\ UNCHANGED <<cal, callVars, history, samples, microtasks, frame, frameErrors,
                   pageVars>>

\* getUserMedia resolves for a Camera constructed on null: this.video.srcObject
\* throws a TypeError, which the catch of initializeCamera takes
CalibrationStartThrows ==
    /\ microtasks = <<>>
    /\ cameras # <<>>
    /\ cameras[1].status = "starting"
    /\ ~cameras[1].video
    /\ cameras' = [cameras EXCEPT ![1].status = "failed"]
    /\ ui' = [ui EXCEPT !.error = errorAfterCatch(app.mode)]
    /\ UNCHANGED <<cal, callVars, history, samples, microtasks, frame, frameErrors,
                   pageVars>>

\* options.onFrame of CameraComponent.tsx: the calls of one frame
cameraOnFrame(onResults, input) ==
    IF ~input.videoReady THEN <<>>
    ELSE IF input.detect = "throws" THEN <<"detectForVideo">>
    ELSE <<"detectForVideo", "drawImage">>
            \o (IF onResults # "undefined" THEN <<"onResults">> ELSE <<>>)

\* onFrame of the Camera of CameraComponent.tsx on the detector's answer
CalibrationFrame(input) ==
    /\ frame' = [ camera |-> 1, kind |-> KindOf(input),
                  calls |-> cameraOnFrame(cameras[1].onResults, input),
                  caught |-> "", targetLandmarks |-> NoTarget,
                  payload |-> input.faceBlendshapes,
                  blendshapes |-> [elements |-> "none", items |-> <<>>],
                  first |-> FALSE ]
    /\ cameras' = [cameras EXCEPT ![1].frames = @ + 1, ![1].status = "running"]

\* camera.start() gets its stream and calls onFrame() for the first time;
\* initializeCamera resumes after it
CalibrationStartLoop ==
    /\ microtasks = <<>>
    /\ TotalFrames < MaxFrames
    /\ cameras # <<>>
    /\ cameras[1].status = "starting"
    /\ cameras[1].video
    /\ \E input \in ViewFrameInputs(app.mode) : CalibrationFrame(input)
    /\ microtasks' = <<[task |-> "initialized", camera |-> 1]>>
    /\ UNCHANGED <<cal, callVars, history, samples, frameErrors, ui, pageVars>>

\* requestAnimationFrame calls onFrame of the running camera
CalibrationTick ==
    /\ microtasks = <<>>
    /\ TotalFrames < MaxFrames
    /\ cameras # <<>>
    /\ cameras[1].status = "running"
    /\ \E input \in ViewFrameInputs(app.mode) : CalibrationFrame(input)
    /\ UNCHANGED <<cal, callVars, history, samples, microtasks, frameErrors, ui,
                   pageVars>>

\* initializeCamera after await camera.start(): setIsInitialized(true) and
\* setError(null), which React ignores once the component is unmounted
CalibrationInitialized ==
    /\ microtasks # <<>>
    /\ Head(microtasks).task = "initialized"
    /\ ui' = IF ViewShown(app.mode) = "Calibration"
             THEN [ui EXCEPT !.isInitialized = TRUE, !.error = "null"]
             ELSE ui
    /\ microtasks' = Tail(microtasks)
    /\ UNCHANGED <<cal, callVars, history, samples, cameras, frame, frameErrors,
                   pageVars>>

\* the countdown timer of the calibration tool shown by App
AppCountdownTimer == CountdownTimerOn({FrontalFace})

ClickCalibrationTool ==
    /\ microtasks = <<>>
    /\ ~EffectPending
    /\ ModeButtonsShown(app.mode)
    /\ setMode("calibrate")

AppInit ==
    /\ cal = CalibrationSet("frontal", {})
    /\ pc = "idle"
    /\ arg = NoLocals
    /\ res = Returned(<<>>)
    /\ locals = NoLocals
    /\ history = <<>>
    /\ samples = 0
    /\ cameras = <<>>
    /\ microtasks = <<>>
    /\ frame = [kind |-> "none"]
    /\ frameErrors = 0
    /\ ui = [isInitialized |-> FALSE, error |-> "null", innerHTML |-> <<>>]
    /\ capture = CaptureAbsent
    /\ app = [mode |-> "practice"]

AppNext ==
    \/ ClickPracticeMode
    \/ ClickCalibrationTool
    \/ CalibrationRunEffect
    \/ CalibrationCameraCreated
    \/ CalibrationInitializeFails
    \/ CalibrationStartThrows
    \/ CalibrationStartLoop
    \/ CalibrationTick
    \/ CalibrationInitialized
    \/ InitializeResumes
    \/ InitializeRejects
    \/ ProcessFrame
    \/ SelectVowel
    \/ ClickCapture
    \/ AppCountdownTimer
    \/ Download

SpecApp == AppInit /\ [][AppNext]_vars

-----------------------------------------------------------------------------
(* Properties *)

\* the forty mouth indices and the three axes a shape is compared on
MouthIds == Range(OUTER_LIP_LANDMARKS) \cup Range(INNER_LIP_LANDMARKS)
Axes == {1, 2, 3}

\* the stored coordinate c of index id in frame k of the calibration data
Stored(k, id, c) == cal[k].landmarks[ToStr(id)][c]

TargetReturned == pc = "computeTargetLandmarks" /\ res.ok

BasisVowels == {"A", "U", "I"}
DerivedVowels == {"EO", "E", "AE", "O", "YO", "YU", "EU"}
FrameOfBasisVowel == [A |-> "a", U |-> "u", I |-> "i"]

\* C1: for a basis vowel the static target shape is, at each of the 40
\* mouth indices and on each axis, the stored coordinate of the vowel's own
\* calibration frame (a for A, u for U, i for I), whatever the neutral frame
\* and the coefficient table hold.
C1_BasisVowelExact ==
    (TargetReturned /\ arg.vowel \in BasisVowels) =>
        /\ DOMAIN locals.staticTargetShape = MouthIds
        /\ Cardinality(MouthIds) = 40
        /\ \A id \in MouthIds : \A c \in Axes :
              locals.staticTargetShape[id][c]
                  = Stored(FrameOfBasisVowel[arg.vowel], id, c)

\* a basis vowel's shape was built from a frame that differs from neutral,
\* also when another frame of the calibration data is incomplete
C1_Witness ==
    /\ TargetReturned /\ arg.vowel = "U"
    /\ locals.staticTargetShape[61] = cal.u.landmarks["61"]
    /\ locals.staticTargetShape[61] # cal.neutral.landmarks["61"]
    /\ locals.staticTargetShape[61] # cal.i.landmarks["61"]

\* C2: for a derived vowel the static target shape is, per index and per
\* axis, neutral + open*(a - neutral) + round*(u - neutral)
\* + spread*(i - neutral) on the stored per-point coordinates, with the
\* coefficients of the vowel's table entry; equivalently the affine
\* combination (1 - open - round - spread)*neutral + open*a + round*u + spread*i.
C2_DerivedVowelInterpolation ==
    (TargetReturned /\ arg.vowel \in DerivedVowels) =>
        /\ DOMAIN locals.staticTargetShape = MouthIds
        /\ \A id \in MouthIds : \A c \in Axes :
              LET k == VOWEL_COEFFS_MONO[arg.vowel]
                  n == Stored("neutral", id, c)
                  a == Stored("a", id, c)
                  u == Stored("u", id, c)
                  i == Stored("i", id, c)
                  t == locals.staticTargetShape[id][c]
              IN  /\ t = Add(n, Add(Mul(k.open, Sub(a, n)),
                                Add(Mul(k.round, Sub(u, n)), Mul(k.spread, Sub(i, n)))))
                  /\ t = Add(Mul(Sub(One, Add(k.open, Add(k.round, k.spread))), n),
                             Add(Mul(k.open, a), Add(Mul(k.round, u), Mul(k.spread, i))))

\* a derived vowel with two non-zero coefficients produced a shape that is
\* none of the four stored ones at index 61
C2_Witness ==
    /\ TargetReturned /\ arg.vowel = "E"
    /\ \A k \in {"neutral", "a", "u", "i"} :
          locals.staticTargetShape[61] # cal[k].landmarks["61"]

\* C3: computeTargetLandmarks yields a target for the 3 basis vowels and the
\* 7 table symbols only; for any other symbol it throws the unknown-vowel
\* error and returns nothing.
C3_OnlyTenVowels ==
    pc = "computeTargetLandmarks" =>
        IF arg.vowel \in BasisVowels \cup DerivedVowels
        THEN res.error # "UnknownVowel"
        ELSE ~res.ok /\ res.error = "UnknownVowel"

\* the anchor triple of a landmark array, and the claim's degenerate cases:
\* the inter-eye vector, the eye-centre-to-nose vector or their cross
\* product shorter than epsilon
EyeVector(l) == VSub(l[362], l[133])
NoseVector(l) == VSub(l[1], VDivS(VAdd(l[133], l[362]), I(2)))
IsDegenerate(l) ==
    \/ Lt(VLength(EyeVector(l)), EPSILON)
    \/ Lt(VLength(NoseVector(l)), EPSILON)
    \/ Lt(VLength(VCross(EyeVector(l), NoseVector(l))), EPSILON)

FrameHasNaN(f) ==
    \/ VHasNaN(f.origin) \/ VHasNaN(f.rightVector) \/ VHasNaN(f.upVector)
    \/ VHasNaN(f.forwardVector) \/ IsNaN(f.scale)

\* the neutral calibration anchors, as a landmark array
CalAnchors ==
    (1 :> cal.neutral.landmarks["1"]) @@ (133 :> cal.neutral.landmarks["133"])
        @@ (362 :> cal.neutral.landmarks["362"])

\* C4: on a degenerate anchor triple computeHeadPoseAnchor throws
\* DegenerateGeometry; no frame with a NaN component is returned, and none
\* is used to produce target landmarks.
C4_DegenerateGeometryFails ==
    /\ (pc = "computeHeadPoseAnchor" /\ IsDegenerate(arg.landmarks)) =>
            (~res.ok /\ res.error = "DegenerateGeometry")
    /\ (pc = "computeHeadPoseAnchor" /\ res.ok) => ~FrameHasNaN(res.value)
    /\ TargetReturned =>
            (~FrameHasNaN(locals.calibratedPose) /\ ~FrameHasNaN(locals.userPose))

\* C5: on a non-degenerate anchor triple the returned frame has unit,
\* pairwise orthogonal vectors, is right-handed (right x up = forward), and
\* its right vector is the inter-eye vector divided by its positive length.
C5_Orthonormal ==
    (pc = "computeHeadPoseAnchor" /\ ~IsDegenerate(arg.landmarks)) =>
        /\ res.ok
        /\ LET r == res.value.rightVector
               u == res.value.upVector
               f == res.value.forwardVector
           IN  /\ VDot(r, r) = One /\ VDot(u, u) = One /\ VDot(f, f) = One
               /\ VDot(r, u) = Zero /\ VDot(r, f) = Zero /\ VDot(u, f) = Zero
               /\ VCross(r, u) = f
               /\ Lt(Zero, res.value.scale)
               /\ VScale(res.value.scale, r) = EyeVector(arg.landmarks)

\* a frame was returned for a rolled head: the right vector has a vertical
\* component and the up vector a horizontal one
C5_Witness ==
    /\ pc = "computeHeadPoseAnchor" /\ res.ok /\ ~IsDegenerate(arg.landmarks)
    /\ res.value.rightVector[2] # Zero
    /\ res.value.upVector[1] # Zero

\* the displacement of a target point from the origin of the live frame
Displacement(target, id, landmarks) == VSub(target[id], landmarks[1])

VNumEq(p, q) == NumEq(p[1], q[1]) /\ NumEq(p[2], q[2]) /\ NumEq(p[3], q[3])

\* C6: when the live anchors are the neutral calibration anchors, the
\* overlay transform returns at every mouth index the static target point
\* it was given, with scale ratio 1.
C6_IdentityTransform ==
    (TargetReturned /\ arg.vowel \in BasisVowels \cup DerivedVowels
        /\ arg.allLandmarks = CalAnchors) =>
        /\ NumEq(Div(locals.userPose.scale, locals.calibratedPose.scale), One)
        /\ \A id \in MouthIds :
              VNumEq(res.value[id], locals.staticTargetShape[id])

\* C6 restricted to non-degenerate anchors, where a frame exists
IdentityTransformOfFrames ==
    (TargetReturned /\ arg.vowel \in BasisVowels \cup DerivedVowels
        /\ arg.allLandmarks = CalAnchors /\ ~IsDegenerate(CalAnchors)) =>
        \A id \in MouthIds : VNumEq(res.value[id], locals.staticTargetShape[id])

\* C7: multiplying the three live anchors by k > 0 multiplies, at every
\* mouth index, the displacement of the target point from the live origin
\* by k (so its direction is kept).
C7_ScaleProportional ==
    (TargetReturned /\ arg.vowel \in BasisVowels \cup DerivedVowels) =>
        \A k \in 1..MaxScale :
            LET scaled == ScaleLandmarks(arg.allLandmarks, k)
                again == computeTargetLandmarks(cal, scaled, arg.vowel)
            IN  /\ again.ok
                /\ \A id \in MouthIds :
                      VNumEq(Displacement(again.value, id, scaled),
                             VScale(I(k), Displacement(res.value, id, arg.allLandmarks)))

\* C7 restricted to non-degenerate live and calibration anchors
ScaleProportionalOfFrames ==
    (TargetReturned /\ arg.vowel \in BasisVowels \cup DerivedVowels
        /\ ~IsDegenerate(arg.allLandmarks) /\ ~IsDegenerate(CalAnchors)) =>
        \A k \in 1..MaxScale :
            LET scaled == ScaleLandmarks(arg.allLandmarks, k)
                again == computeTargetLandmarks(cal, scaled, arg.vowel)
            IN  /\ again.ok
                /\ \A id \in MouthIds :
                      VNumEq(Displacement(again.value, id, scaled),
                             VScale(I(k), Displacement(res.value, id, arg.allLandmarks)))

StoredShape(k) == [id \in MouthIds |-> cal[k].landmarks[ToStr(id)]]
Coeffs(o, r, s) == [open |-> I(o), round |-> I(r), spread |-> I(s)]

\* C8: the interpolation with coefficients (0, 0, 0) yields the neutral
\* calibration shape at every mouth index, with (open 1, 0, 0) the 'a'
\* shape, with (0, round 1, 0) the 'u' shape, with (0, 0, spread 1) the 'i'
\* shape.
C8_UnitCoefficients ==
    (pc = "interpolate" /\ res.ok) =>
        /\ arg.coeffs = Coeffs(0, 0, 0) => res.value = StoredShape("neutral")
        /\ arg.coeffs = Coeffs(1, 0, 0) => res.value = StoredShape("a")
        /\ arg.coeffs = Coeffs(0, 1, 0) => res.value = StoredShape("u")
        /\ arg.coeffs = Coeffs(0, 0, 1) => res.value = StoredShape("i")

\* the interpolation ran with round = 1 and gave a shape that is the 'u'
\* shape and differs from the neutral and the 'a' shape
C8_Witness ==
    /\ pc = "interpolate" /\ res.ok /\ arg.coeffs = Coeffs(0, 1, 0)
    /\ res.value = StoredShape("u")
    /\ res.value # StoredShape("neutral") /\ res.value # StoredShape("a")

Keys(ids) == {ToStr(id) : id \in ids}

FeaturesThrewMissing ==
    ~res.ok /\ res.error = "MissingLandmark" /\ res.value = <<>>

\* C9: on a map that lacks one of the indices the function requires (the
\* left-eye-inner index 133 in particular) computeFeatures throws the
\* missing-landmark error and returns no feature vector.
C9_MissingLandmarkFails ==
    (pc = "computeFeatures" /\ ~(Keys(SeventeenIds) \subseteq DOMAIN arg.landmarks))
        => FeaturesThrewMissing

\* computeFeatures was called on a map that lacks only index 133
C9_Witness ==
    /\ pc = "computeFeatures"
    /\ Keys(SeventeenIds) \ DOMAIN arg.landmarks = {"133"}
    /\ FeaturesThrewMissing

EyeDistanceOk(landmarks) ==
    ~Lt(distance3D(landmarks["133"], landmarks["362"]), EPSILON)

\* C10 as claimed: a map holding the ten indices the formulas read, with eye
\* distance at least epsilon, makes computeFeatures return {A, W, P}.
C10_TenIndicesSuffice ==
    (pc = "computeFeatures" /\ Keys(TenIds) \subseteq DOMAIN arg.landmarks
        /\ EyeDistanceOk(arg.landmarks)) => res.ok

\* C10 as amended: a map holding all seventeen required indices, with eye
\* distance at least epsilon, makes computeFeatures return {A, W, P} with
\* W = mouth width / eye distance, A = (L - U) / eye distance and
\* P = 1 / max(W, epsilon), also when the map holds nothing else; a map
\* holding only the ten indices the formulas read throws the
\* missing-landmark error.
C10_SeventeenIndicesSuffice ==
    /\ (pc = "computeFeatures" /\ Keys(SeventeenIds) \subseteq DOMAIN arg.landmarks
            /\ EyeDistanceOk(arg.landmarks)) =>
          /\ res.ok
          /\ DOMAIN res.value = {"A", "W", "P"}
          /\ LET l == arg.landmarks
                 eye == distance3D(l["133"], l["362"])
             IN  /\ Mul(res.value.W, eye) = distance3D(l["61"], l["291"])
                 /\ Mul(res.value.A, Mul(I(3), eye))
                       = Sub(Add(l["14"][2], Add(l["311"][2], l["405"][2])),
                             Add(l["13"][2], Add(l["81"][2], l["178"][2])))
                 /\ res.value.P = Div(One, Max(res.value.W, EPSILON))
    /\ (pc = "computeFeatures" /\ DOMAIN arg.landmarks = Keys(TenIds)) =>
          FeaturesThrewMissing

\* computeFeatures returned features for a map of exactly the seventeen
\* required indices
C10_Witness ==
    /\ pc = "computeFeatures" /\ DOMAIN arg.landmarks = Keys(SeventeenIds)
    /\ res.ok /\ Lt(Zero, res.value.A) /\ Lt(Zero, res.value.W)

\* the target the formula of vowelTarget gives for a table entry
FormulaTarget(vowel, basis) ==
    LET c == VOWEL_COEFFS_MONO[vowel]
        f == [k \in {"A", "W", "P"} |->
                LET j == CASE k = "A" -> 1 [] k = "W" -> 2 [] OTHER -> 3
                IN  Add(Add(Add(basis.features.neutral[k], Mul(c.open, basis.open[j])),
                            Mul(c.round, basis.round[j])), Mul(c.spread, basis.spread[j]))]
    IN  f

\* C19: vowelTarget(vowel, basis) returns a target feature vector for the
\* basis vowels as well as for the derived vowels, and for a derived vowel
\* it is neutral + open * openDelta + round * roundDelta + spread * spreadDelta.
C19_VowelTargetAllVowels ==
    (pc = "vowelTarget" /\ arg.vowel \in BasisVowels \cup DerivedVowels) =>
        /\ res.ok
        /\ DOMAIN res.value = {"A", "W", "P"}
        /\ arg.vowel \in DerivedVowels =>
              res.value = FormulaTarget(arg.vowel, arg.basis)

\* C19 for the derived vowels alone
VowelTargetOfDerivedVowels ==
    (pc = "vowelTarget" /\ arg.vowel \in DerivedVowels) =>
        res.ok /\ res.value = FormulaTarget(arg.vowel, arg.basis)

\* the rows of the table on the console
PrintedRows == SelectSeq(locals.console, LAMBDA line : line \notin {"rule", "title", "columns", "dashes"})

\* C20: for a valid basis printMonoVowels returns normally after printing
\* one row for every vowel of its display order.
C20_PrintMonoVowelsCompletes ==
    pc = "printMonoVowels" =>
        /\ res.ok
        /\ Len(PrintedRows) = Len(vowelOrder)
        /\ \A k \in 1..Len(vowelOrder) : PrintedRows[k].vowel = vowelOrder[k]

Alpha == Num(7, 10)

\* C11: the first sample given to the smoother is returned unmodified, and
\* every later sample new is returned as previous * 0.7 + new * (1 - 0.7)
\* per component, previous being the vector the smoother returned last.
C11_SmootherEMA ==
    [][ samples' = samples + 1 =>
          IF samples = 0
          THEN res'.value = arg'.newBlendshapes
          ELSE \A i \in DOMAIN arg'.newBlendshapes :
                  res'.value[i] = Add(Mul(res.value[i], Alpha),
                                      Mul(arg'.newBlendshapes[i], Sub(One, Alpha))) ]_vars

\* a later sample was blended with the vector returned before, which was
\* itself a blend and not the raw sample given before
C11_Witness ==
    /\ pc = "smoothBlendshapes" /\ samples >= 3
    /\ res.value # arg.newBlendshapes
    /\ Len(history) >= 3 /\ history[Len(history) - 1] \notin BlendInputs

AbsNum(x) == IF x[1] < 0 THEN Neg(x) ELSE x

\* |v[i] - c[i]|
Gap(v, c, i) == AbsNum(Sub(v[i], c[i]))

\* the tolerances the smoothed output is required to come within
Tolerances == {Num(1, 2), Num(1, 4)}

WithinTolerance(tol) ==
    /\ history # <<>>
    /\ \A i \in DOMAIN arg.newBlendshapes :
          Lt(Gap(history[Len(history)], arg.newBlendshapes, i), tol)

\* C13: from any smoother state, feeding the same vector c on every step
\* multiplies each component's distance |smoothed[i] - c[i]| by alpha on
\* every step, and the output comes within each tolerance of c and stays.
C13_ConstantFeedConverges ==
    /\ [][ (samples' = samples + 1 /\ history # <<>>) =>
             \A i \in DOMAIN arg.newBlendshapes :
                Gap(res'.value, arg.newBlendshapes, i)
                    = Mul(smoothingFactor,
                          Gap(history[Len(history)], arg.newBlendshapes, i)) ]_vars
    /\ \A tol \in Tolerances : <>[]WithinTolerance(tol)

\* the output has come within 1/4 of the constant without being equal to it
C13_Witness ==
    /\ samples >= 3
    /\ WithinTolerance(Num(1, 4))
    /\ \E i \in DOMAIN arg.newBlendshapes :
          Lt(Zero, Gap(history[Len(history)], arg.newBlendshapes, i))

-----------------------------------------------------------------------------
(* Properties of the tracking component *)

\* the latest tick called the frame handler on a frame with a face
FaceFrame == frame.kind = "face"

\* C12: the first numeric sample a restarted stream (the camera of a later
\* effect run) gives the smoother is shown unmodified, as is the first
\* sample of the first stream
C12_RestartResetsSmoother ==
    (FaceFrame /\ frame.first) => frame.blendshapes.items = frame.payload.first

\* the first sample the component's smoother is ever given is shown unmodified
FirstSampleOfComponent ==
    (FaceFrame /\ frame.first /\ samples = 1)
        => frame.blendshapes.items = frame.payload.first

\* C14: a tick whose frame has no result or no face leaves the smoother
\* history and the calibration data as they were, and the handler does with
\* any frame with a face what it would have done before that tick
C14_SkippedFrameKeepsState ==
    [][ (TotalFrames' = TotalFrames + 1 /\ frame'.kind \in {"noResult", "noFace"})
          => /\ history' = history
             /\ cal' = cal
             /\ \A input \in FaceInputs :
                  onFrameHandler(cal', history', ui'.innerHTML,
                                 cameras'[frame'.camera].onResults, input)
                    = onFrameHandler(cal, history, ui'.innerHTML,
                                     cameras'[frame'.camera].onResults, input) ]_vars

\* a frame without a face was skipped while the smoother held a history
C14_Witness == frame.kind = "noFace" /\ history # <<>>

\* the stored calibration lacks a landmark the synthesizer or the head-pose
\* builder reads
CalibrationIncomplete ==
    \/ ~HasMouthIds(cal, {"neutral", "a", "u", "i"})
    \/ ~computeHeadPoseAnchor(cal.neutral.landmarks, FALSE).ok

\* C15: with such a calibration the error has been reported as a
\* configuration error by the time a frame is processed, and no frame
\* raises it
C15_ConfigurationErrorOnce ==
    (CalibrationIncomplete /\ TotalFrames > 0)
        => /\ ui.error # "null"
           /\ frame.caught # "computeTargetLandmarks"

\* C16: no tick finds the processing flag set (every tick's frame is given
\* to the handler), the flag is clear once the reactions have run, and the
\* camera of a frame that failed keeps running
C16_FrameFailureContained ==
    /\ frame.kind # "dropped"
    /\ microtasks = <<>> => \A i \in DOMAIN cameras : ~cameras[i].isProcessing
    /\ (frame.kind # "none" /\ frame.caught # "")
          => cameras[frame.camera].status = "running"

\* a frame of the only camera was processed to the end after an earlier
\* frame of it had failed
C16_Witness ==
    /\ Len(cameras) = 1
    /\ frameErrors > 0
    /\ FaceFrame
    /\ frame.caught = ""
    /\ frame.targetLandmarks # NoTarget

\* the calls of a frame that belong to the five components
ComponentCalls(calls) ==
    SelectSeq(calls, LAMBDA c :
        c \in {"computeFeatures", "computeHeadPoseAnchor", "staticTargetShape",
               "targetLandmarks", "smoothBlendshapes"})

\* C17: a frame with a face runs the feature extractor, the head-pose
\* builder, the synthesizer, the overlay transformer and the smoother, each
\* once and in this order
C17_OnePassInOrder ==
    (FaceFrame /\ frame.caught = "")
        => ComponentCalls(frame.calls)
             = <<"computeFeatures", "computeHeadPoseAnchor", "staticTargetShape",
                 "targetLandmarks", "smoothBlendshapes">>

\* the scores of the blendshapes a frame shows
ScoresShown(blendshapes) ==
    IF blendshapes.elements = "number" THEN blendshapes.items
    ELSE [j \in DOMAIN blendshapes.items |-> ScoreOf(blendshapes.items[j])]

\* C18: the scores a frame shows are the output of the smoother, stepped
\* once for the frame, whatever the form of the payload
C18_DisplayedScoresSmoothed ==
    (FaceFrame /\ Len(frame.blendshapes.items) > 0)
        => /\ Len(SelectSeq(frame.calls, LAMBDA c : c = "smoothBlendshapes")) = 1
           /\ history # <<>>
           /\ ScoresShown(frame.blendshapes) = history[Len(history)]

\* the numeric payloads are smoothed
NumericScoresSmoothed ==
    (FaceFrame /\ frame.blendshapes.elements = "number")
        => /\ Len(SelectSeq(frame.calls, LAMBDA c : c = "smoothBlendshapes")) = 1
           /\ frame.blendshapes.items = history[Len(history)]

-----------------------------------------------------------------------------
(* Properties of the calibration data under calls *)

\* the landmark map a call was given, as it was passed
Passed(a) == IF "allLandmarks" \in DOMAIN a THEN a.allLandmarks ELSE a.landmarks

\* C21: no call of computeFeatures, computeVowelBasis, computeHeadPoseAnchor
\* or computeTargetLandmarks changes the calibration frames or the landmark
\* map it was passed, and the head-pose frame of the calibration data after
\* a call of computeTargetLandmarks is the calibrated frame that call used
C21_CalibrationImmutable ==
    [][ /\ cal' = cal
        /\ "after" \in DOMAIN arg' => arg'.after = Passed(arg')
        /\ (pc' = "computeTargetLandmarks" /\ locals'.fn = "computeTargetLandmarks") =>
              computeHeadPoseAnchor(cal'.neutral.landmarks, FALSE)
                = Returned(locals'.calibratedPose) ]_vars

\* computeTargetLandmarks has built the shape of a calibrated vowel, the
\* frame of U+314F, assigning its forty points, and returned a target
C21_Witness ==
    /\ pc = "computeTargetLandmarks"
    /\ res.ok
    /\ arg.vowel = "A"
    /\ Len(StaticShapeStores(cal, arg.vowel)) = 40
    /\ locals.staticTargetShape # [id \in Range(allMouthIds) |->
                                     cal.neutral.landmarks[ToStr(id)]]

-----------------------------------------------------------------------------
(* Properties of the Camera class *)

\* C22: a camera has at most one handler call in flight, and then its flag
\* is set; a tick that finds the flag set starts nothing and queues nothing;
\* and the flag is clear again once a call has settled and the reactions
\* have run
C22_OneInFlight ==
    /\ [](\A i \in CameraIds :
            /\ cameras[i].inFlight <= 1
            /\ cameras[i].inFlight = 1 => cameras[i].isProcessing
            /\ (cameras[i].inFlight = 0 /\ microtasks = <<>>) => ~cameras[i].isProcessing)
    /\ [][\A i \in CameraIds :
            (cameras[i].isProcessing /\ cameras'[i].frames = cameras[i].frames + 1)
                => /\ frame'.kind = "dropped"
                   /\ cameras'[i].inFlight = cameras[i].inFlight
                   /\ microtasks' = microtasks]_vars

\* the third tick of a camera was dropped while a handler call of it was in
\* flight
C22_Witness ==
    /\ frame.kind = "dropped"
    /\ cameras[frame.camera].inFlight = 1
    /\ cameras[frame.camera].frames >= 3

-----------------------------------------------------------------------------
(* Properties of the effect runs *)

\* the cameras whose animation loop is running
RunningLoops == {i \in DOMAIN cameras : cameras[i].status = "running"}

\* C23: after any sequence of effect runs at most one animation loop feeds
\* the component's smoother and canvas
C23_OneLoopPerComponent == Cardinality(RunningLoops) <= 1

-----------------------------------------------------------------------------
(* Properties of the rolling history *)

\* C24: the history holds at most 5 vectors, and once the smoother has been
\* called its last element is the vector the latest call returned
C24_HistoryBounded ==
    /\ Len(history) <= 5
    /\ samples > 0 => (history # <<>> /\ history[Len(history)] = res.value)

\* a sixth call has pushed a vector on a full history
C24_Witness == samples = 6 /\ Len(history) = 5

-----------------------------------------------------------------------------
(* Properties of the landmark registry *)

\* C29: the registry holds 43 distinct indices (the anchors 1, 133, 362 and
\* 20 + 20 lip indices), the indices computeFeatures requires are among
\* them, the lists of the tracking component equal the registry's, and a
\* target is produced for exactly the registry's mouth indices
C29_RegistryConsistent ==
    /\ FACE_ANCHORS = <<1, 133, 362>>
    /\ Len(OUTER_LIP_LANDMARKS) = 20
    /\ Len(INNER_LIP_LANDMARKS) = 20
    /\ Len(ALL_TRACKED_LANDMARKS) = 43
    /\ Cardinality(Range(ALL_TRACKED_LANDMARKS)) = 43
    /\ Range(REQUIRED_LANDMARKS) \subseteq Range(ALL_TRACKED_LANDMARKS)
    /\ FeatureReads \subseteq Range(ALL_TRACKED_LANDMARKS)
    /\ outerLipIds = OUTER_LIP_LANDMARKS
    /\ innerLipIds = INNER_LIP_LANDMARKS
    /\ outerLipPoints = OUTER_LIP_LANDMARKS
    /\ innerLipPoints = INNER_LIP_LANDMARKS
    /\ targetOuterLipIds = OUTER_LIP_LANDMARKS
    /\ targetInnerLipIds = INNER_LIP_LANDMARKS
    /\ TargetReturned => DOMAIN res.value = Range(MOUTH_LANDMARKS)

\* computeTargetLandmarks has returned a target of 40 landmarks
C29_Witness == TargetReturned /\ Cardinality(DOMAIN res.value) = 40


-----------------------------------------------------------------------------
(* The calibration tool and the App *)

\* a capture attempt of the mounted component has ended
AttemptEnded ==
    capture.mounted /\ ~capture.attempt.active /\ capture.lastAttempt # "none"

\* C25: every capture attempt of the component ends with isCapturing false,
\* with or without a face and also when detection failed, and no capture
\* can be started while isCapturing is true.
C25_AttemptEndsNotCapturing ==
    /\ AttemptEnded => ~capture.isCapturing
    /\ capture.isCapturing => ~ENABLED ClickCapture

\* the entries of two calibration objects agree on the vowels of keys
SameEntries(before, after, keys) ==
    \A k \in keys :
        /\ k \in DOMAIN after <=> k \in DOMAIN before
        /\ k \in DOMAIN before => after[k] = before[k]

\* C26: a capture changes at most the entry of the vowel that was selected
\* when Capture was clicked, whatever is selected when the countdown ends,
\* and an attempt that finds no face changes no entry.
C26_OnlyClickedVowelChanges ==
    [][ /\ capture.mounted /\ capture'.mounted =>
            SameEntries(capture.calibrationData, capture'.calibrationData,
                        CaptureVowels \ {capture.attempt.vowel})
        /\ capture'.calibrationData # capture.calibrationData /\ capture'.mounted =>
            /\ capture.attempt.active
            /\ capture'.lastAttempt = "captured"
            /\ DOMAIN capture'.calibrationData =
                    DOMAIN capture.calibrationData \cup {capture.attempt.vowel} ]_vars

\* a frame was stored for the clicked vowel after another vowel was selected
\* during the countdown, and the vowel selected at the end has no entry
C26_Witness ==
    /\ capture.mounted
    /\ capture.lastAttempt = "captured"
    /\ capture.attempt.reselected
    /\ capture.attempt.vowel # capture.currentVowel
    /\ capture.attempt.vowel \in DOMAIN capture.calibrationData
    /\ capture.currentVowel \notin DOMAIN capture.calibrationData

\* C27: the Download button is enabled exactly when the frames of neutral,
\* a, u and i have all been captured, and a downloaded file holds these four
\* frames, each with the 43 registry indices as its landmark keys.
C27_DownloadNeedsAllFour ==
    /\ capture.mounted =>
            (~DownloadDisabled(capture.calibrationData)
                <=> CaptureVowels \subseteq DOMAIN capture.calibrationData)
    /\ capture.mounted => (ENABLED Download
                <=> CaptureVowels \subseteq DOMAIN capture.calibrationData)
    /\ capture.downloaded =>
            /\ DOMAIN capture.file = CaptureVowels
            /\ \A vowel \in CaptureVowels :
                    /\ capture.file[vowel] = Keys(Range(ALL_TRACKED_LANDMARKS))
                    /\ Cardinality(capture.file[vowel]) = 43

\* a file was downloaded
C27_Witness ==
    /\ capture.downloaded
    /\ DOMAIN capture.file = CaptureVowels

\* C28: once the component is unmounted, its processFrame is never invoked
\* again, whenever the unmount falls during the asynchronous initialisation.
C28_NoFrameAfterCleanup == ~capture.frameAfterCleanup

\* C30: exactly one of the practice view and the calibration tool is shown,
\* the calibration tool being mounted exactly in calibrate mode, and in each
\* mode the button that leads to the other mode is on the page.
C30_OtherModeReachable ==
    /\ app.mode \in {"practice", "calibrate"}
    /\ ViewShown(app.mode) \in {"Calibration", "CalibrationCapture"}
    /\ capture.mounted <=> ViewShown(app.mode) = "CalibrationCapture"
    /\ ModeButtonsShown(app.mode)

=============================================================================
